---- MODULE Spec2Model ----
(***************************************************************************)
(* Verification model of the LD2450 radar firmware core:                   *)
(*   - the UART hand-off between the ingestion task (ld2450_uart_task)     *)
(*     and the command module (send_config_command),                       *)
(*   - the per-frame tracking / zone pipeline of ld2450_uart_task,         *)
(*   - the per-endpoint occupancy debouncer of sensor_poll_cb.             *)
(* Each part has its own specification; the variables of the other parts   *)
(* stay at their initial values.                                           *)
(***************************************************************************)
EXTENDS Integers, Sequences, FiniteSets, TLC

(***************************************************************************)
(* Bounds of the model                                                     *)
(***************************************************************************)
NumCallers == 2
MaxFifo == 2
MaxNotify == 2
MaxTime == 3
MaxDelay == 2
MaxFeeds == 2
MaxAlarms == 3

Callers == 1..NumCallers

(***************************************************************************)
(* Program constants (ld2450_cmd.c, esp_err.h names)                       *)
(***************************************************************************)
CMD_ENABLE_CONF == 255
CMD_DISABLE_CONF == 254
CMD_SINGLE_TARGET == 128
CMD_SET_ZONE == 194

ESP_OK == "ESP_OK"
ESP_FAIL == "ESP_FAIL"
ESP_ERR_TIMEOUT == "ESP_ERR_TIMEOUT"
ESP_ERR_INVALID_RESPONSE == "ESP_ERR_INVALID_RESPONSE"
ESP_ERR_INVALID_ARG == "ESP_ERR_INVALID_ARG"
ESP_ERR_INVALID_SIZE == "ESP_ERR_INVALID_SIZE"

\* command ids the public functions pass to send_config_command
CmdIds == {CMD_SINGLE_TARGET, CMD_SET_ZONE}

VARIABLES
    \* ---- ingestion task / hand-off (ld2450.c) ----
    rxPc,                   \* position of ld2450_uart_task: "top","give","wait","read"
    s_rx_pause_requested,   \* volatile bool
    s_rx_paused_sem,        \* binary semaphore: 0 or 1 token
    notifyValue,            \* task-notification value of the ingestion task
    uartRx,                 \* bytes waiting in the UART receive buffer, as frames
    \* ---- command module (ld2450_cmd.c) ----
    s_cmd_mutex,            \* 0 = free, else the caller holding it
    pc,                     \* per caller: position inside the public command function
    cmd_id,                 \* per caller: argument of send_config_command
    err,                    \* per caller: local err of send_config_command
    ret,                    \* per caller: value returned by send_config_command
    log,                    \* per caller: what this invocation did so far (history)
    \* ---- driver state (ld2450.c) ----
    s_cfg,                  \* ld2450_runtime_cfg_t
    s_zones,                \* ld2450_zone_t[LD2450_ZONE_COUNT]
    report,                 \* the parser's report (ld2450_parser_get_report)
    s_state,                \* ld2450_state_t published by the ingestion task
    drvLast,                \* last driver step: "init", "frame" (state exported), "set" (mutator)
    \* ---- sensor bridge (zigbee_init.c, zigbee_signal_handlers.c) ----
    now,                    \* the clock read by xTaskGetTickCount / esp_timer_get_time
    s_network_joined,       \* zigbee_is_network_joined()
    occupancy_delay,        \* per endpoint: cfg.occupancy_delay_ms, in clock units
    occupancy_cooldown,     \* per endpoint: cfg.occupancy_cooldown_sec, in clock units
    s_last_occ,             \* per endpoint: s_last_occupied (0), s_last_zone_occ[i] (i + 1)
    s_pending_occupied,
    s_occupied_start_time,
    s_pending_clear,
    s_clear_start_time,
    s_last_target_count,
    obsRaw,                 \* per endpoint: raw occupancy seen by the latest evaluation
    obsSince,               \* per endpoint: time of the evaluation that first saw obsRaw
    \* ---- frame parser (ld2450_parser.c) and its input ----
    p_buf,                  \* p->buf[0 .. p->len-1]
    p_cap,                  \* p->cap
    stream,                 \* the bytes the UART will deliver, in order
    scen,                   \* what stream is made of
    fed,                    \* number of bytes of stream already given to feed
    feed_calls,             \* number of feed calls on stream so far
    feed_k,                 \* len argument of the latest call
    feed_in,                \* buffer contents the latest call worked on (old tail + data)
    feed_ret,               \* value returned by the latest call
    feed_n,                 \* frames decoded by the latest call
    feed_total,             \* frames decoded since the parser was created
    \* ---- accessors and mutators of the driver, step by step (ld2450.c) ----
    s_lock,                 \* portMUX s_lock: "free" or the task inside the critical section
    exp_pc,                 \* ingestion task: "idle","eval","enter","write","exit"
    exp_cfg,                \* its local cfg snapshot
    exp_val,                \* the values it is about to store into s_state
    exp_k,                  \* number of s_state fields stored so far
    get_pc,                 \* reading task: "idle","enter","copy","exit"
    get_kind,               \* which accessor it is in: "state","zones","cfg"
    get_out,                \* the caller's buffer *out
    get_k,                  \* number of fields copied so far
    get_ret,                \* value returned by the latest accessor call
    set_pc,                 \* mutating task: "idle","enter","write","exit"
    set_call,               \* the mutator it called and its arguments
    set_k,                  \* number of elements stored so far
    api_ret,                \* value returned by the latest mutator call
    \* ---- read_ack on the bytes of the UART (ld2450_cmd.c) ----
    ack_rx,                 \* the bytes uart_read_bytes delivers before the deadline
    ack_expected,           \* argument expected_cmd
    ack_res,                \* value returned, "none" before the call
    \* ---- application: Zigbee signals, alarms and saved zones (main/) ----
    zb_phase,               \* what the Zigbee stack is doing
    poll_alarms,            \* number of pending alarms for sensor_poll_cb
    retry_alarms,           \* number of pending alarms for steering_retry_cb
    nvs_zones               \* zones of the saved configuration (nvs_config.c s_cfg.zones)

cmdVars == <<rxPc, s_rx_pause_requested, s_rx_paused_sem, notifyValue, uartRx,
             s_cmd_mutex, pc, cmd_id, err, ret, log>>

drvVars == <<s_cfg, s_zones, report, s_state, drvLast>>

debVars == <<now, s_network_joined, occupancy_delay, occupancy_cooldown, s_last_occ,
             s_pending_occupied, s_occupied_start_time, s_pending_clear,
             s_clear_start_time, s_last_target_count, obsRaw, obsSince>>

parVars == <<p_buf, p_cap, stream, scen, fed, feed_calls, feed_k, feed_in, feed_ret,
             feed_n, feed_total>>

apiVars == <<s_lock, exp_pc, exp_cfg, exp_val, exp_k, get_pc, get_kind, get_out, get_k,
             get_ret, set_pc, set_call, set_k, api_ret>>

ackVars == <<ack_rx, ack_expected, ack_res>>

appVars == <<zb_phase, poll_alarms, retry_alarms, nvs_zones>>

nonCmdVars == <<drvVars, debVars, parVars, apiVars, ackVars, appVars>>

vars == <<cmdVars, drvVars, debVars, parVars, apiVars, ackVars, appVars>>

(***************************************************************************)
(* UART receive buffer contents, one element per frame on the wire          *)
(***************************************************************************)
\* an acknowledgement carries the echoed command word (id, 0x01), little-endian,
\* and the status word
NoResp == [kind |-> "none", word |-> 0, st |-> 0]
DataFrame == [kind |-> "data", word |-> 0, st |-> 0]
Ack(w, s) == [kind |-> "ack", word |-> w, st |-> s]
AckWord(c) == c + 256 * 1

OtherCmd(c) == IF c = CMD_ENABLE_CONF THEN CMD_DISABLE_CONF ELSE CMD_ENABLE_CONF

\* what the sensor may answer to a written command frame
Responses(c) == {NoResp, Ack(AckWord(c), 0), Ack(AckWord(c), 1), Ack(AckWord(OtherCmd(c)), 0)}

RECURSIVE FirstAck(_)
FirstAck(q) ==
    IF q = <<>> THEN NoResp
    ELSE IF Head(q).kind = "ack" THEN Head(q)
    ELSE FirstAck(Tail(q))

\* read_ack: scan what the UART delivers before the deadline for an ACK header,
\* then check the echoed command word and the status
read_ack(expected_cmd, q) ==
    LET ack == FirstAck(q) IN
    IF ack.kind # "ack" THEN ESP_ERR_TIMEOUT
    ELSE IF ack.word % 256 # expected_cmd \/ ack.word \div 256 # 1 THEN ESP_ERR_INVALID_RESPONSE
    ELSE IF ack.st # 0 THEN ESP_FAIL
    ELSE ESP_OK

\* ---- read_ack on bytes ----
CMD_HEADER == <<253, 252, 251, 250>>
CMD_FOOTER == <<4, 3, 2, 1>>
ACK_NEED == 10

\* the scan loop of read_ack over the bytes received before the deadline:
\* hdr_matched header bytes matched so far, ack the bytes collected after it
RECURSIVE ack_scan(_, _, _)
ack_scan(bytes, hdr_matched, ack) ==
    IF Len(ack) >= ACK_NEED THEN [got |-> TRUE, ack |-> ack]
    ELSE IF bytes = <<>> THEN [got |-> FALSE, ack |-> ack]
    ELSE IF hdr_matched < 4
         THEN IF Head(bytes) = CMD_HEADER[hdr_matched + 1]
              THEN ack_scan(Tail(bytes), hdr_matched + 1, ack)
              ELSE ack_scan(Tail(bytes), IF Head(bytes) = CMD_HEADER[1] THEN 1 ELSE 0, ack)
         ELSE ack_scan(Tail(bytes), hdr_matched, Append(ack, Head(bytes)))

\* variant of read_ack_stream: a wrong command word is reported as ESP_FAIL
read_ack_stream_FailOnMismatch(expected_cmd, bytes) ==
    LET r == ack_scan(bytes, 0, <<>>) IN
    IF ~r.got THEN ESP_ERR_TIMEOUT
    ELSE IF r.ack[3] # expected_cmd \/ r.ack[4] # 1 THEN ESP_FAIL
    ELSE IF r.ack[5] # 0 \/ r.ack[6] # 0 THEN ESP_FAIL
    ELSE ESP_OK

\* read_ack: ack[0..1] length, ack[2] command echo, ack[3] 0x01, ack[4..5]
\* status (C index k is element k + 1)
read_ack_stream(expected_cmd, bytes) ==
    LET r == ack_scan(bytes, 0, <<>>) IN
    IF ~r.got THEN ESP_ERR_TIMEOUT
    ELSE IF r.ack[3] # expected_cmd \/ r.ack[4] # 1 THEN ESP_ERR_INVALID_RESPONSE
    ELSE IF r.ack[5] # 0 \/ r.ack[6] # 0 THEN ESP_FAIL
    ELSE ESP_OK

\* an ACK frame as the sensor sends it: header, length, command word, status,
\* two more words, footer
AckFrame(echo, second, st) ==
    CMD_HEADER \o <<8, 0, echo, second>> \o st \o <<1, 0, 64, 0>> \o CMD_FOOTER

\* what may precede the ACK: nothing, a data frame start, a broken ACK header
AckPrefixes == {<<>>, <<170, 255, 3, 0, 14>>, <<253, 252, 253>>}
AckStatuses == {<<0, 0>>, <<1, 0>>, <<0, 1>>}
\* number of bytes of the ACK frame that arrive before the deadline
AckArrived == {0, 3, 13, 14, 18}
AckExpected == {CMD_ENABLE_CONF, CMD_DISABLE_CONF, CMD_SET_ZONE}

AckStreams(expected_cmd) ==
    {pre \o SubSeq(AckFrame(echo, second, st), 1, k) :
        pre \in AckPrefixes, echo \in {expected_cmd, CMD_SINGLE_TARGET},
        second \in {0, 1}, st \in AckStatuses, k \in AckArrived}

\* the application before the Zigbee stack has started, with the saved
\* configuration of a device that was never configured (DEFAULT_CONFIG)
AppIdle ==
    /\ zb_phase = "boot"
    /\ poll_alarms = 0
    /\ retry_alarms = 0
    /\ nvs_zones = [zi \in 0..4 |-> [enabled |-> FALSE, v |-> [k \in 0..3 |-> [x_mm |-> 0, y_mm |-> 0]]]]

AckIdle ==
    /\ ack_rx = <<>>
    /\ ack_expected = CMD_ENABLE_CONF
    /\ ack_res = "none"

\* one call of read_ack
ReadAck ==
    /\ ack_res = "none"
    /\ ack_res' = read_ack_stream(ack_expected, ack_rx)
    /\ UNCHANGED <<ack_rx, ack_expected>>

\* history record of one step of an invocation
Ev(op, c, res) == [op |-> op, cmd |-> c, res |-> res]

(***************************************************************************)
(* Ingestion task: ld2450_uart_task                                        *)
(***************************************************************************)
\* loop top: if (s_rx_pause_requested) ... else uart_read_bytes(...)
RxCheck ==
    /\ rxPc = "top"
    /\ rxPc' = IF s_rx_pause_requested THEN "give" ELSE "read"
    /\ UNCHANGED nonCmdVars
    /\ UNCHANGED <<s_rx_pause_requested, s_rx_paused_sem, notifyValue, uartRx,
                   s_cmd_mutex, pc, cmd_id, err, ret, log>>

\* xSemaphoreGive(s_rx_paused_sem): a binary semaphore holds at most one token
RxGive ==
    /\ rxPc = "give"
    /\ s_rx_paused_sem' = 1
    /\ rxPc' = "wait"
    /\ UNCHANGED nonCmdVars
    /\ UNCHANGED <<s_rx_pause_requested, notifyValue, uartRx,
                   s_cmd_mutex, pc, cmd_id, err, ret, log>>

\* ulTaskNotifyTake(pdTRUE, portMAX_DELAY); continue;
RxWake ==
    /\ rxPc = "wait"
    /\ notifyValue > 0
    /\ notifyValue' = 0
    /\ rxPc' = "top"
    /\ UNCHANGED nonCmdVars
    /\ UNCHANGED <<s_rx_pause_requested, s_rx_paused_sem, uartRx,
                   s_cmd_mutex, pc, cmd_id, err, ret, log>>

\* uart_read_bytes(..., 100 ms) returns with whatever is buffered (possibly nothing)
RxRead ==
    /\ rxPc = "read"
    /\ uartRx' = <<>>
    /\ rxPc' = "top"
    /\ UNCHANGED nonCmdVars
    /\ UNCHANGED <<s_rx_pause_requested, s_rx_paused_sem, notifyValue,
                   s_cmd_mutex, pc, cmd_id, err, ret, log>>

\* the sensor streams a data frame
SensorData ==
    /\ Len(uartRx) < MaxFifo
    /\ uartRx' = Append(uartRx, DataFrame)
    /\ UNCHANGED nonCmdVars
    /\ UNCHANGED <<rxPc, s_rx_pause_requested, s_rx_paused_sem, notifyValue,
                   s_cmd_mutex, pc, cmd_id, err, ret, log>>

(***************************************************************************)
(* Command module                                                          *)
(***************************************************************************)
\* a task calls one of the public ld2450_cmd_* functions
Call(c) ==
    /\ pc[c] = "idle"
    /\ notifyValue < MaxNotify
    /\ \E id \in CmdIds : cmd_id' = [cmd_id EXCEPT ![c] = id]
    /\ pc' = [pc EXCEPT ![c] = "lock"]
    /\ UNCHANGED nonCmdVars
    /\ UNCHANGED <<rxPc, s_rx_pause_requested, s_rx_paused_sem, notifyValue, uartRx,
                   s_cmd_mutex, err, ret, log>>

\* variant of Lock: the public function does not wait for the mutex
Lock_NoMutex(c) ==
    /\ pc[c] = "lock"
    /\ s_cmd_mutex' = c
    /\ pc' = [pc EXCEPT ![c] = "pause"]
    /\ UNCHANGED nonCmdVars
    /\ UNCHANGED <<rxPc, s_rx_pause_requested, s_rx_paused_sem, notifyValue, uartRx,
                   cmd_id, err, ret, log>>

\* xSemaphoreTake(s_cmd_mutex, portMAX_DELAY)
Lock(c) ==
    /\ pc[c] = "lock"
    /\ s_cmd_mutex = 0
    /\ s_cmd_mutex' = c
    /\ pc' = [pc EXCEPT ![c] = "pause"]
    /\ UNCHANGED nonCmdVars
    /\ UNCHANGED <<rxPc, s_rx_pause_requested, s_rx_paused_sem, notifyValue, uartRx,
                   cmd_id, err, ret, log>>

\* ld2450_rx_pause, first half: s_rx_pause_requested = true
PauseRequest(c) ==
    /\ pc[c] = "pause"
    /\ s_rx_pause_requested' = TRUE
    /\ pc' = [pc EXCEPT ![c] = "pause_wait"]
    /\ log' = [log EXCEPT ![c] = Append(@, Ev("pause", 0, ESP_OK))]
    /\ UNCHANGED nonCmdVars
    /\ UNCHANGED <<rxPc, s_rx_paused_sem, notifyValue, uartRx,
                   s_cmd_mutex, cmd_id, err, ret>>

\* ld2450_rx_pause, second half: xSemaphoreTake(s_rx_paused_sem, 200 ms) got the token
PauseTaken(c) ==
    /\ pc[c] = "pause_wait"
    /\ s_rx_paused_sem = 1
    /\ s_rx_paused_sem' = 0
    /\ pc' = [pc EXCEPT ![c] = "enter_send"]
    /\ UNCHANGED nonCmdVars
    /\ UNCHANGED <<rxPc, s_rx_pause_requested, notifyValue, uartRx,
                   s_cmd_mutex, cmd_id, err, ret, log>>

\* ld2450_rx_pause, second half: the 200 ms wait expired; the result is not looked at
PauseTimeout(c) ==
    /\ pc[c] = "pause_wait"
    /\ s_rx_paused_sem = 0
    /\ pc' = [pc EXCEPT ![c] = "enter_send"]
    /\ UNCHANGED nonCmdVars
    /\ UNCHANGED <<rxPc, s_rx_pause_requested, s_rx_paused_sem, notifyValue, uartRx,
                   s_cmd_mutex, cmd_id, err, ret, log>>

\* send_frame: uart_flush_input, then uart_write_bytes; the sensor answers a
\* frame that was written completely
send_frame(c, id, written, resp) ==
    /\ uartRx' = IF written /\ resp # NoResp THEN <<resp>> ELSE <<>>
    /\ log' = [log EXCEPT ![c] =
                 Append(@, Ev("write", id, IF written THEN ESP_OK ELSE ESP_FAIL))]

\* read_ack as a step of caller c: consumes what the UART holds
ReadAckStep(c, id) ==
    /\ uartRx' = <<>>
    /\ log' = [log EXCEPT ![c] = Append(@, Ev("ack", id, read_ack(id, uartRx)))]

\* variant of EnterSend: the write-failure path returns without ld2450_rx_resume
EnterSend_NoResume(c) ==
    /\ pc[c] = "enter_send"
    /\ \E written \in BOOLEAN : \E resp \in Responses(CMD_ENABLE_CONF) :
         /\ written \/ resp = NoResp
         /\ send_frame(c, CMD_ENABLE_CONF, written, resp)
         /\ err' = [err EXCEPT ![c] = IF written THEN ESP_OK ELSE ESP_FAIL]
         /\ ret' = [ret EXCEPT ![c] = IF written THEN ret[c] ELSE ESP_FAIL]
         /\ pc' = [pc EXCEPT ![c] = IF written THEN "enter_ack" ELSE "unlock"]
    /\ UNCHANGED nonCmdVars
    /\ UNCHANGED <<rxPc, s_rx_pause_requested, s_rx_paused_sem, notifyValue,
                   s_cmd_mutex, cmd_id>>

\* enter_config: send_frame(CMD_ENABLE_CONF); on failure send_config_command
\* resumes and returns the error
EnterSend(c) ==
    /\ pc[c] = "enter_send"
    /\ \E written \in BOOLEAN : \E resp \in Responses(CMD_ENABLE_CONF) :
         /\ written \/ resp = NoResp
         /\ send_frame(c, CMD_ENABLE_CONF, written, resp)
         /\ err' = [err EXCEPT ![c] = IF written THEN ESP_OK ELSE ESP_FAIL]
         /\ pc' = [pc EXCEPT ![c] = IF written THEN "enter_ack" ELSE "resume"]
    /\ UNCHANGED nonCmdVars
    /\ UNCHANGED <<rxPc, s_rx_pause_requested, s_rx_paused_sem, notifyValue,
                   s_cmd_mutex, cmd_id, ret>>

\* variant of EnterAck: a failed enter step does not abort the command
EnterAck_NoAbort(c) ==
    /\ pc[c] = "enter_ack"
    /\ ReadAckStep(c, CMD_ENABLE_CONF)
    /\ err' = [err EXCEPT ![c] = read_ack(CMD_ENABLE_CONF, uartRx)]
    /\ pc' = [pc EXCEPT ![c] = "cmd_send"]
    /\ UNCHANGED nonCmdVars
    /\ UNCHANGED <<rxPc, s_rx_pause_requested, s_rx_paused_sem, notifyValue,
                   s_cmd_mutex, cmd_id, ret>>

\* enter_config: read_ack(CMD_ENABLE_CONF)
EnterAck(c) ==
    /\ pc[c] = "enter_ack"
    /\ ReadAckStep(c, CMD_ENABLE_CONF)
    /\ err' = [err EXCEPT ![c] = read_ack(CMD_ENABLE_CONF, uartRx)]
    /\ pc' = [pc EXCEPT ![c] =
                IF read_ack(CMD_ENABLE_CONF, uartRx) = ESP_OK THEN "cmd_send" ELSE "resume"]
    /\ UNCHANGED nonCmdVars
    /\ UNCHANGED <<rxPc, s_rx_pause_requested, s_rx_paused_sem, notifyValue,
                   s_cmd_mutex, cmd_id, ret>>

\* err = send_frame(cmd_id, value, value_len); on failure exit_config follows
CmdSend(c) ==
    /\ pc[c] = "cmd_send"
    /\ \E written \in BOOLEAN : \E resp \in Responses(cmd_id[c]) :
         /\ written \/ resp = NoResp
         /\ send_frame(c, cmd_id[c], written, resp)
         /\ err' = [err EXCEPT ![c] = IF written THEN ESP_OK ELSE ESP_FAIL]
         /\ pc' = [pc EXCEPT ![c] = IF written THEN "cmd_ack" ELSE "exit_send"]
    /\ UNCHANGED nonCmdVars
    /\ UNCHANGED <<rxPc, s_rx_pause_requested, s_rx_paused_sem, notifyValue,
                   s_cmd_mutex, cmd_id, ret>>

\* err = read_ack(cmd_id); exit_config follows in either case
CmdAck(c) ==
    /\ pc[c] = "cmd_ack"
    /\ ReadAckStep(c, cmd_id[c])
    /\ err' = [err EXCEPT ![c] = read_ack(cmd_id[c], uartRx)]
    /\ pc' = [pc EXCEPT ![c] = "exit_send"]
    /\ UNCHANGED nonCmdVars
    /\ UNCHANGED <<rxPc, s_rx_pause_requested, s_rx_paused_sem, notifyValue,
                   s_cmd_mutex, cmd_id, ret>>

\* exit_config: send_frame(CMD_DISABLE_CONF); its result is discarded
ExitSend(c) ==
    /\ pc[c] = "exit_send"
    /\ \E written \in BOOLEAN : \E resp \in Responses(CMD_DISABLE_CONF) :
         /\ written \/ resp = NoResp
         /\ send_frame(c, CMD_DISABLE_CONF, written, resp)
         /\ pc' = [pc EXCEPT ![c] = IF written THEN "exit_ack" ELSE "resume"]
    /\ UNCHANGED nonCmdVars
    /\ UNCHANGED <<rxPc, s_rx_pause_requested, s_rx_paused_sem, notifyValue,
                   s_cmd_mutex, cmd_id, err, ret>>

\* variant of ExitAck: the result of exit_config replaces the saved error
ExitAck_ReturnsExitResult(c) ==
    /\ pc[c] = "exit_ack"
    /\ ReadAckStep(c, CMD_DISABLE_CONF)
    /\ err' = [err EXCEPT ![c] = read_ack(CMD_DISABLE_CONF, uartRx)]
    /\ pc' = [pc EXCEPT ![c] = "resume"]
    /\ UNCHANGED nonCmdVars
    /\ UNCHANGED <<rxPc, s_rx_pause_requested, s_rx_paused_sem, notifyValue,
                   s_cmd_mutex, cmd_id, ret>>

\* exit_config: read_ack(CMD_DISABLE_CONF); its result is discarded
ExitAck(c) ==
    /\ pc[c] = "exit_ack"
    /\ ReadAckStep(c, CMD_DISABLE_CONF)
    /\ pc' = [pc EXCEPT ![c] = "resume"]
    /\ UNCHANGED nonCmdVars
    /\ UNCHANGED <<rxPc, s_rx_pause_requested, s_rx_paused_sem, notifyValue,
                   s_cmd_mutex, cmd_id, err, ret>>

\* variant of Resume: the wake signal is not latched, it reaches the ingestion
\* task only if the task is already blocked on it
Resume_WakeOnlyIfBlocked(c) ==
    /\ pc[c] = "resume"
    /\ s_rx_pause_requested' = FALSE
    /\ notifyValue' = IF rxPc = "wait" THEN notifyValue + 1 ELSE notifyValue
    /\ log' = [log EXCEPT ![c] = Append(@, Ev("wake", 0, ESP_OK))]
    /\ ret' = [ret EXCEPT ![c] = err[c]]
    /\ pc' = [pc EXCEPT ![c] = "unlock"]
    /\ UNCHANGED nonCmdVars
    /\ UNCHANGED <<rxPc, s_rx_paused_sem, uartRx, s_cmd_mutex, cmd_id, err>>

\* ld2450_rx_resume, then send_config_command returns err (ESP_OK on the
\* success path)
Resume(c) ==
    /\ pc[c] = "resume"
    /\ s_rx_pause_requested' = FALSE
    /\ notifyValue' = notifyValue + 1
    /\ log' = [log EXCEPT ![c] = Append(@, Ev("wake", 0, ESP_OK))]
    /\ ret' = [ret EXCEPT ![c] = err[c]]
    /\ pc' = [pc EXCEPT ![c] = "unlock"]
    /\ UNCHANGED nonCmdVars
    /\ UNCHANGED <<rxPc, s_rx_paused_sem, uartRx, s_cmd_mutex, cmd_id, err>>

\* xSemaphoreGive(s_cmd_mutex); the public function returns err
Unlock(c) ==
    /\ pc[c] = "unlock"
    /\ s_cmd_mutex' = 0
    /\ pc' = [pc EXCEPT ![c] = "idle"]
    /\ log' = [log EXCEPT ![c] = <<>>]
    /\ ret' = [ret EXCEPT ![c] = "none"]
    /\ err' = [err EXCEPT ![c] = ESP_OK]
    /\ UNCHANGED nonCmdVars
    /\ UNCHANGED <<rxPc, s_rx_pause_requested, s_rx_paused_sem, notifyValue, uartRx,
                   cmd_id>>

(***************************************************************************)
(* Frame decoding: parse_update_payload (ld2450_parser.c)                  *)
(***************************************************************************)
LD2450_ZONE_COUNT == 5
LD2450_TRACK_MULTI == 0
LD2450_TRACK_SINGLE == 1

\* value of a C int converted to int16_t
ToInt16(v) == ((v + 32768) % 65536) - 32768

\* variant of decode_signed_upstream: the raw value read as two's complement
decode_signed_upstream_TwosComplement(lo, hi) == ToInt16(hi * 256 + lo)

\* int16_t v = hi<<8 | lo; if (hi & 0x80) v = -v + 0x8000;
decode_signed_upstream(lo, hi) ==
    LET v == ToInt16(hi * 256 + lo) IN
    IF hi >= 128 THEN ToInt16((-v) + 32768) ELSE v

\* int16_t y = hi<<8 | lo; if (y != 0) y -= 0x8000;
decode_y_upstream(lo, hi) ==
    LET y == ToInt16(hi * 256 + lo) IN
    IF y # 0 THEN ToInt16(y - 32768) ELSE y

Target(p, x, y, sp) == [present |-> p, x_mm |-> x, y_mm |-> y, speed |-> sp]
ZeroTarget == Target(FALSE, 0, 0, 0)

\* one 8-byte target record of the payload, at byte offset o (payload is a
\* sequence: C index k is element k + 1)
\* variant of parse_target: x and speed are not cleared for an absent target
parse_target_KeepsFields(payload, o) ==
    LET y_raw_u == payload[o + 4] * 256 + payload[o + 3] IN
    Target(y_raw_u # 0,
           decode_signed_upstream(payload[o + 1], payload[o + 2]),
           decode_y_upstream(payload[o + 3], payload[o + 4]),
           decode_signed_upstream(payload[o + 5], payload[o + 6]))

parse_target(payload, o) ==
    LET x == decode_signed_upstream(payload[o + 1], payload[o + 2])
        y_raw_u == payload[o + 4] * 256 + payload[o + 3]
        y == decode_y_upstream(payload[o + 3], payload[o + 4])
        speed == decode_signed_upstream(payload[o + 5], payload[o + 6])
        present == (y_raw_u # 0)
    IN  Target(present,
               IF present THEN x ELSE 0,
               IF present THEN y ELSE 0,
               IF present THEN speed ELSE 0)

\* variant of parse_update_payload: the count is the index of the last present
\* slot plus one
parse_update_payload_CountsLeading(payload) ==
    LET targets == [i \in 0..2 |-> parse_target(payload, 8 * i)]
        last == IF targets[2].present THEN 3
                ELSE IF targets[1].present THEN 2
                ELSE IF targets[0].present THEN 1 ELSE 0
    IN  [targets |-> targets,
         target_count |-> last,
         occupied |-> (last > 0)]

parse_update_payload(payload) ==
    LET targets == [i \in 0..2 |-> parse_target(payload, 8 * i)]
        present_count == Cardinality({i \in 0..2 : targets[i].present})
    IN  [targets |-> targets,
         target_count |-> present_count,
         occupied |-> (present_count > 0)]

ZeroReport == [targets |-> [i \in 0..2 |-> ZeroTarget], target_count |-> 0, occupied |-> FALSE]

(***************************************************************************)
(* Zone test: ld2450_zone_contains_point (ld2450_zone.c)                   *)
(***************************************************************************)
Pt(x, y) == [x_mm |-> x, y_mm |-> y]
Zone(en, a, b, c, d) == [enabled |-> en, v |-> [k \in 0..3 |-> <<a, b, c, d>>[k + 1]]]

Abs(v) == IF v < 0 THEN -v ELSE v
Min(a, b) == IF a < b THEN a ELSE b
Max(a, b) == IF a > b THEN a ELSE b

\* C integer division truncates toward zero
CDiv(a, b) ==
    IF (a >= 0) = (b > 0) THEN Abs(a) \div Abs(b) ELSE -(Abs(a) \div Abs(b))

\* variant of point_on_segment: the bounding-box test excludes its borders
point_on_segment_StrictBox(p, a, b) ==
    LET cross == (p.y_mm - a.y_mm) * (b.x_mm - a.x_mm) - (p.x_mm - a.x_mm) * (b.y_mm - a.y_mm)
    IN  IF cross # 0 THEN FALSE
        ELSE /\ p.x_mm > Min(a.x_mm, b.x_mm) /\ p.x_mm < Max(a.x_mm, b.x_mm)
             /\ p.y_mm > Min(a.y_mm, b.y_mm) /\ p.y_mm < Max(a.y_mm, b.y_mm)

point_on_segment(p, a, b) ==
    LET cross == (p.y_mm - a.y_mm) * (b.x_mm - a.x_mm) - (p.x_mm - a.x_mm) * (b.y_mm - a.y_mm)
    IN  IF cross # 0 THEN FALSE
        ELSE /\ p.x_mm >= Min(a.x_mm, b.x_mm) /\ p.x_mm <= Max(a.x_mm, b.x_mm)
             /\ p.y_mm >= Min(a.y_mm, b.y_mm) /\ p.y_mm <= Max(a.y_mm, b.y_mm)

\* the loop for (i = 0, j = 3; i < 4; j = i++) from edge i on
RECURSIVE contains_loop(_, _, _, _, _)
contains_loop(z, p, i, j, inside) ==
    IF i >= 4 THEN inside
    ELSE LET a == z.v[j]
             b == z.v[i]
         IN  IF point_on_segment(p, a, b) THEN TRUE
             ELSE IF (a.y_mm > p.y_mm) # (b.y_mm > p.y_mm)
                  THEN LET dy == b.y_mm - a.y_mm
                           num == (p.y_mm - a.y_mm) * (b.x_mm - a.x_mm)
                           x_int == a.x_mm + CDiv(num, dy)
                       IN  contains_loop(z, p, i + 1, i,
                                         IF x_int >= p.x_mm THEN ~inside ELSE inside)
                  ELSE contains_loop(z, p, i + 1, i, inside)

\* variant of ld2450_zone_contains_point: the enabled flag is not looked at
ld2450_zone_contains_point_IgnoresEnabled(z, p) == contains_loop(z, p, 0, 3, FALSE)

ld2450_zone_contains_point(z, p) ==
    IF ~z.enabled THEN FALSE ELSE contains_loop(z, p, 0, 3, FALSE)

(***************************************************************************)
(* Tracking selection and zone evaluation: ld2450_uart_task (ld2450.c)     *)
(***************************************************************************)
\* the loop of select_single_target from slot i on
RECURSIVE select_loop(_, _, _, _)
select_loop(r, i, have, best) ==
    IF ~(i < r.target_count /\ i < 3) THEN best
    ELSE LET t == r.targets[i] IN
         IF ~t.present THEN select_loop(r, i + 1, have, best)
         ELSE IF ~have THEN select_loop(r, i + 1, TRUE, t)
         ELSE IF t.y_mm > 0 /\ ~(best.y_mm > 0) THEN select_loop(r, i + 1, TRUE, t)
         ELSE IF t.y_mm > 0 /\ best.y_mm > 0
              THEN select_loop(r, i + 1, TRUE, IF t.y_mm < best.y_mm THEN t ELSE best)
         ELSE select_loop(r, i + 1, TRUE,
                          IF Abs(t.y_mm) < Abs(best.y_mm) THEN t ELSE best)

select_single_target(r) == select_loop(r, 0, FALSE, ZeroTarget)

\* multi mode: first present target among the first target_count slots
RECURSIVE first_present(_, _)
first_present(r, i) ==
    IF ~(i < r.target_count /\ i < 3) THEN ZeroTarget
    ELSE IF r.targets[i].present THEN r.targets[i]
    ELSE first_present(r, i + 1)

select_target(cfg, r) ==
    IF ~r.occupied THEN ZeroTarget
    ELSE IF cfg.mode = LD2450_TRACK_SINGLE THEN select_single_target(r)
    ELSE first_present(r, 0)

\* variant of effective_count: single mode reports the raw count as well
effective_count_SingleKeepsCount(cfg, r) ==
    IF ~r.occupied THEN 0 ELSE r.target_count

effective_count(cfg, r) ==
    IF ~r.occupied THEN 0
    ELSE IF cfg.mode = LD2450_TRACK_SINGLE THEN 1
    ELSE r.target_count

\* zone_occ[zi] as computed by the zone evaluation block
zone_eval(cfg, zones, r, selected, zi) ==
    IF ~(cfg.enabled /\ r.occupied) THEN FALSE
    ELSE IF ~zones[zi].enabled THEN FALSE
    ELSE IF cfg.mode = LD2450_TRACK_SINGLE
         THEN ld2450_zone_contains_point(zones[zi], Pt(selected.x_mm, selected.y_mm))
    ELSE \E ti \in 0..2 :
            /\ ti < r.target_count
            /\ r.targets[ti].present
            /\ ld2450_zone_contains_point(zones[zi], Pt(r.targets[ti].x_mm, r.targets[ti].y_mm))

RECURSIVE bitmap_of(_, _)
bitmap_of(zone_occ, zi) ==
    IF zi >= LD2450_ZONE_COUNT THEN 0
    ELSE (IF zone_occ[zi] THEN 2 ^ zi ELSE 0) + bitmap_of(zone_occ, zi + 1)

\* the state snapshot exported at the end of a loop iteration that decoded r
export_state(cfg, zones, r) ==
    LET selected == select_target(cfg, r)
        zone_occ == [zi \in 0..(LD2450_ZONE_COUNT - 1) |-> zone_eval(cfg, zones, r, selected, zi)]
    IN  [occupied_global |-> r.occupied,
         target_count_raw |-> r.target_count,
         target_count_effective |-> effective_count(cfg, r),
         selected |-> selected,
         targets |-> r.targets,
         zone_occupied |-> zone_occ,
         zone_bitmap |-> bitmap_of(zone_occ, 0)]

\* ---- inputs used by the model ----
\* 8-byte target records: x(2) y(2) speed(2) resolution(2)
RawAbsent == <<1, 0, 0, 0, 5, 0, 0, 0>>          \* y raw 0, x and speed bytes nonzero
RawA == <<250, 0, 200, 128, 0, 0, 0, 0>>         \* x 250, y +200
RawB == <<88, 2, 200, 128, 0, 0, 0, 0>>          \* x 600, y +200
RawC == <<0, 0, 50, 128, 0, 0, 0, 0>>            \* x 0, y +50
RawD == <<0, 0, 156, 127, 0, 0, 0, 0>>           \* x 0, y -100
RawE == <<0, 0, 212, 126, 0, 0, 0, 0>>           \* x 0, y -300
RawTargets == {RawAbsent, RawA, RawB, RawC, RawD, RawE}
LastSlotTargets == {RawAbsent, RawA, RawD}
Payloads == {a \o b \o c : a \in RawTargets, b \in RawTargets, c \in LastSlotTargets}

NoZone == Zone(FALSE, Pt(0, 0), Pt(0, 0), Pt(0, 0), Pt(0, 0))
\* the placeholder zone of the source
ZoneDefault == Zone(TRUE, Pt(0, 500), Pt(500, 500), Pt(500, 1500), Pt(0, 1500))
ZoneNear(en) == Zone(en, Pt(0, 0), Pt(500, 0), Pt(500, 400), Pt(0, 400))
ZoneBehind == Zone(TRUE, Pt(-200, -400), Pt(700, -400), Pt(700, 300), Pt(250, -50))
MkZones(a, b, c, d, e) == [zi \in 0..(LD2450_ZONE_COUNT - 1) |-> <<a, b, c, d, e>>[zi + 1]]
DefaultZones == MkZones(ZoneDefault, NoZone, NoZone, NoZone, NoZone)
ZoneSets == {DefaultZones,
             MkZones(ZoneNear(TRUE), ZoneBehind, ZoneNear(FALSE), NoZone, ZoneDefault),
             MkZones(NoZone, NoZone, ZoneNear(TRUE), NoZone, NoZone)}

\* variant of zone_vertices_sane: every zone is accepted
zone_vertices_sane_AcceptsAll(z) == TRUE

zone_vertices_sane(z) ==
    IF ~z.enabled THEN TRUE
    ELSE \E k \in 0..3 : z.v[k].x_mm # 0 \/ z.v[k].y_mm # 0

\* ---- actions ----
\* one iteration of the ingestion loop in which ld2450_parser_feed decoded a
\* frame with this payload
IngestFrame(payload) ==
    /\ report' = parse_update_payload(payload)
    /\ s_state' = export_state(s_cfg, s_zones, report')
    /\ drvLast' = "frame"
    /\ UNCHANGED <<s_cfg, s_zones>>

ld2450_set_enabled(enabled) ==
    /\ s_cfg' = [s_cfg EXCEPT !.enabled = enabled]
    /\ drvLast' = "set"
    /\ UNCHANGED <<s_zones, report, s_state>>

ld2450_set_tracking_mode(mode) ==
    /\ mode = LD2450_TRACK_MULTI \/ mode = LD2450_TRACK_SINGLE
    /\ s_cfg' = [s_cfg EXCEPT !.mode = mode]
    /\ drvLast' = "set"
    /\ UNCHANGED <<s_zones, report, s_state>>

ld2450_set_zones(zones) ==
    /\ \A zi \in 0..(LD2450_ZONE_COUNT - 1) : zone_vertices_sane(zones[zi])
    /\ s_zones' = zones
    /\ drvLast' = "set"
    /\ UNCHANGED <<s_cfg, report, s_state>>

\* static ld2450_state_t s_state = {0}
ZeroState ==
    [occupied_global |-> FALSE,
     target_count_raw |-> 0,
     target_count_effective |-> 0,
     selected |-> ZeroTarget,
     targets |-> [i \in 0..2 |-> ZeroTarget],
     zone_occupied |-> [zi \in 0..(LD2450_ZONE_COUNT - 1) |-> FALSE],
     zone_bitmap |-> 0]

DefaultCfg == [enabled |-> TRUE, mode |-> LD2450_TRACK_MULTI, publish_coords |-> FALSE]

\* a mutator call: the function, whether its pointer argument is NULL, and
\* its arguments (b: bool argument, n: mode, zone_index or count)
ApiCall(fn, null, b, n, zs, z) ==
    [fn |-> fn, null |-> null, b |-> b, n |-> n, zones |-> zs, zone |-> z]

NoCall == ApiCall("none", FALSE, FALSE, 0, DefaultZones, NoZone)

\* no task is inside an accessor or a mutator
ApiIdle ==
    /\ s_lock = "free"
    /\ exp_pc = "idle" /\ exp_cfg = DefaultCfg /\ exp_val = ZeroState /\ exp_k = 0
    /\ get_pc = "idle" /\ get_kind = "state" /\ get_out = ZeroState /\ get_k = 0
    /\ get_ret = ESP_OK
    /\ set_pc = "idle" /\ set_call = NoCall /\ set_k = 0
    /\ api_ret = ESP_OK

DrvInit ==
    /\ s_cfg = DefaultCfg
    /\ s_zones = DefaultZones
    /\ report = ZeroReport
    /\ drvLast = "init"
    /\ s_state = ZeroState
    /\ ApiIdle

(***************************************************************************)
(* Accessors and mutators of the driver, one store per step (ld2450.c)     *)
(***************************************************************************)
expVars == <<exp_pc, exp_cfg, exp_val, exp_k>>
getVars == <<get_pc, get_kind, get_out, get_k, get_ret>>
setVars == <<set_pc, set_call, set_k, api_ret>>

\* variant of portENTER_CRITICAL: the section is entered whoever is inside
portENTER_CRITICAL_NoExclusion(task) == s_lock' = task

\* portENTER_CRITICAL(&s_lock) by a task
portENTER_CRITICAL(task) == s_lock = "free" /\ s_lock' = task

portEXIT_CRITICAL == s_lock' = "free"

\* the members of ld2450_state_t in the order the ingestion task stores them
StateFields ==
    <<"occupied_global", "target_count_raw", "target_count_effective", "selected",
      "targets", "zone_occupied", "zone_bitmap">>

\* the members of ld2450_runtime_cfg_t
CfgFields == <<"enabled", "mode", "publish_coords">>

\* the elements of s_zones in memcpy order
ZoneIndexes == [k \in 1..LD2450_ZONE_COUNT |-> k - 1]

\* the object an accessor copies, and the parts it is copied in
shared(kind) ==
    CASE kind = "state" -> s_state
      [] kind = "zones" -> s_zones
      [] OTHER -> s_cfg

parts_of(kind) ==
    CASE kind = "state" -> StateFields
      [] kind = "zones" -> ZoneIndexes
      [] OTHER -> CfgFields

\* contents of the caller's buffer before the accessor fills it
blank(kind) ==
    CASE kind = "state" -> ZeroState
      [] kind = "zones" -> MkZones(NoZone, NoZone, NoZone, NoZone, NoZone)
      [] OTHER -> [enabled |-> FALSE, mode |-> LD2450_TRACK_MULTI, publish_coords |-> FALSE]

\* ---- ingestion task: the end of an iteration that decoded a frame ----
\* cfg = s_cfg inside its own short critical section
ExportCfg(payload) ==
    /\ exp_pc = "idle"
    /\ s_lock = "free"
    /\ report' = parse_update_payload(payload)
    /\ exp_cfg' = s_cfg
    /\ exp_pc' = "eval"
    /\ UNCHANGED <<s_cfg, s_zones, s_state, drvLast, s_lock, exp_val, exp_k, getVars, setVars>>

\* selection and zone evaluation; s_zones is read outside the critical section
ExportEval ==
    /\ exp_pc = "eval"
    /\ exp_val' = export_state(exp_cfg, s_zones, report)
    /\ exp_pc' = "enter"
    /\ UNCHANGED <<drvVars, s_lock, exp_cfg, exp_k, getVars, setVars>>

ExportEnter ==
    /\ exp_pc = "enter"
    /\ portENTER_CRITICAL("rx")
    /\ exp_pc' = "write"
    /\ exp_k' = 0
    /\ UNCHANGED <<drvVars, exp_cfg, exp_val, getVars, setVars>>

\* one of the stores into s_state
ExportStore ==
    /\ exp_pc = "write"
    /\ LET f == StateFields[exp_k + 1] IN s_state' = [s_state EXCEPT ![f] = exp_val[f]]
    /\ exp_k' = exp_k + 1
    /\ exp_pc' = IF exp_k + 1 = Len(StateFields) THEN "exit" ELSE "write"
    /\ UNCHANGED <<s_cfg, s_zones, report, drvLast, s_lock, exp_cfg, exp_val, getVars, setVars>>

ExportExit ==
    /\ exp_pc = "exit"
    /\ portEXIT_CRITICAL
    /\ exp_pc' = "idle"
    /\ exp_k' = 0
    /\ exp_cfg' = DefaultCfg
    /\ exp_val' = ZeroState
    /\ drvLast' = "frame"
    /\ UNCHANGED <<s_cfg, s_zones, report, s_state, getVars, setVars>>

\* ---- ld2450_get_state, ld2450_get_zones, ld2450_get_runtime_cfg ----
get_check(kind, null, count) ==
    IF null THEN ESP_ERR_INVALID_ARG
    ELSE IF kind = "zones" /\ count < LD2450_ZONE_COUNT THEN ESP_ERR_INVALID_SIZE
    ELSE ESP_OK

GetCall(kind, null, count) ==
    /\ get_pc = "idle"
    /\ get_k' = 0
    /\ IF get_check(kind, null, count) # ESP_OK
       THEN /\ get_ret' = get_check(kind, null, count)
            /\ UNCHANGED <<get_pc, get_kind, get_out>>
       ELSE /\ get_pc' = "enter"
            /\ get_kind' = kind
            /\ get_out' = blank(kind)
            /\ get_ret' = get_ret
    /\ UNCHANGED <<drvVars, s_lock, expVars, setVars>>

GetEnter ==
    /\ get_pc = "enter"
    /\ portENTER_CRITICAL("get")
    /\ get_pc' = "copy"
    /\ UNCHANGED <<drvVars, expVars, get_kind, get_out, get_k, get_ret, setVars>>

\* one part of *out = s_state, memcpy(out, s_zones, ..) or *out = s_cfg
GetCopy ==
    /\ get_pc = "copy"
    /\ LET f == parts_of(get_kind)[get_k + 1] IN
           get_out' = [get_out EXCEPT ![f] = shared(get_kind)[f]]
    /\ get_k' = get_k + 1
    /\ get_pc' = IF get_k + 1 = Len(parts_of(get_kind)) THEN "exit" ELSE "copy"
    /\ UNCHANGED <<drvVars, s_lock, expVars, get_kind, get_ret, setVars>>

\* the accessor returns; the caller's buffer is no longer followed
GetExit ==
    /\ get_pc = "exit"
    /\ portEXIT_CRITICAL
    /\ get_ret' = ESP_OK
    /\ get_pc' = "idle"
    /\ get_kind' = "state"
    /\ get_out' = ZeroState
    /\ get_k' = 0
    /\ UNCHANGED <<drvVars, expVars, setVars>>

\* ---- ld2450_set_enabled, _set_tracking_mode, _set_publish_coords,
\* ---- ld2450_set_zones, ld2450_set_zone
\* the argument checks made before the critical section
set_check(c) ==
    CASE c.fn = "set_tracking_mode" ->
           IF c.n # LD2450_TRACK_MULTI /\ c.n # LD2450_TRACK_SINGLE
           THEN ESP_ERR_INVALID_ARG ELSE ESP_OK
      [] c.fn = "set_zones" ->
           IF c.null THEN ESP_ERR_INVALID_ARG
           ELSE IF c.n # LD2450_ZONE_COUNT THEN ESP_ERR_INVALID_SIZE
           ELSE IF \E zi \in 0..(LD2450_ZONE_COUNT - 1) : ~zone_vertices_sane(c.zones[zi])
                THEN ESP_ERR_INVALID_ARG ELSE ESP_OK
      [] c.fn = "set_zone" ->
           IF c.null THEN ESP_ERR_INVALID_ARG
           ELSE IF c.n >= LD2450_ZONE_COUNT THEN ESP_ERR_INVALID_ARG
           ELSE IF ~zone_vertices_sane(c.zone) THEN ESP_ERR_INVALID_ARG ELSE ESP_OK
      [] OTHER -> ESP_OK

SetCall(c) ==
    /\ set_pc = "idle"
    /\ set_k' = 0
    /\ IF set_check(c) # ESP_OK
       THEN api_ret' = set_check(c) /\ UNCHANGED <<set_pc, set_call>>
       ELSE api_ret' = api_ret /\ set_pc' = "enter" /\ set_call' = c
    /\ UNCHANGED <<drvVars, s_lock, expVars, getVars>>

SetEnter ==
    /\ set_pc = "enter"
    /\ portENTER_CRITICAL("set")
    /\ set_pc' = "write"
    /\ UNCHANGED <<drvVars, expVars, getVars, set_call, set_k, api_ret>>

\* one store of the mutator: a member of s_cfg, one zone, or one element of
\* memcpy(s_zones, zones, ..)
SetStore ==
    /\ set_pc = "write"
    /\ s_cfg' = CASE set_call.fn = "set_enabled" -> [s_cfg EXCEPT !.enabled = set_call.b]
                  [] set_call.fn = "set_tracking_mode" -> [s_cfg EXCEPT !.mode = set_call.n]
                  [] set_call.fn = "set_publish_coords" ->
                         [s_cfg EXCEPT !.publish_coords = set_call.b]
                  [] OTHER -> s_cfg
    /\ s_zones' = CASE set_call.fn = "set_zone" -> [s_zones EXCEPT ![set_call.n] = set_call.zone]
                    [] set_call.fn = "set_zones" ->
                           [s_zones EXCEPT ![set_k] = set_call.zones[set_k]]
                    [] OTHER -> s_zones
    /\ set_k' = set_k + 1
    /\ set_pc' = IF set_call.fn = "set_zones" /\ set_k + 1 < LD2450_ZONE_COUNT
                 THEN "write" ELSE "exit"
    /\ UNCHANGED <<report, s_state, drvLast, s_lock, expVars, getVars, set_call, api_ret>>

SetExit ==
    /\ set_pc = "exit"
    /\ portEXIT_CRITICAL
    /\ api_ret' = ESP_OK
    /\ set_pc' = "idle"
    /\ set_call' = NoCall
    /\ set_k' = 0
    /\ drvLast' = "set"
    /\ UNCHANGED <<s_cfg, s_zones, report, s_state, expVars, getVars>>

\* ---- inputs ----
ApiPayloads == {RawAbsent \o RawAbsent \o RawAbsent, RawA \o RawAbsent \o RawAbsent}

\* an enabled zone whose four vertices are all zero
ZoneAllZero == Zone(TRUE, Pt(0, 0), Pt(0, 0), Pt(0, 0), Pt(0, 0))

NearZones == MkZones(ZoneNear(TRUE), NoZone, NoZone, NoZone, ZoneNear(TRUE))
ApiZoneSets == {DefaultZones, NearZones, MkZones(ZoneDefault, NoZone, ZoneAllZero, NoZone, NoZone)}
ApiZoneArgs == {ZoneNear(TRUE), ZoneAllZero}
ApiCounts == {LD2450_ZONE_COUNT - 1, LD2450_ZONE_COUNT, LD2450_ZONE_COUNT + 1}
ApiIndexes == {0, LD2450_ZONE_COUNT - 1, LD2450_ZONE_COUNT}
ApiModes == {LD2450_TRACK_MULTI, LD2450_TRACK_SINGLE, 2}

(***************************************************************************)
(* Occupancy debouncer: sensor_poll_cb (zigbee_init.c)                     *)
(***************************************************************************)
Endpoints == 0..LD2450_ZONE_COUNT

\* raw occupancy of endpoint e in a state snapshot: EP 1 is the overall
\* occupancy, EPs 2-6 are the zones
raw_occupancy(state, e) ==
    IF e = 0 THEN state.occupied_global ELSE state.zone_occupied[e - 1]

\* variant of debounce_endpoint: no shortcut for a zero delay or cooldown, and
\* the elapsed time has to exceed the configured value
debounce_endpoint_StrictElapsed(occupied, last, pend_occ, occ_start, pend_clr, clr_start, delay, cooldown, t) ==
    LET changed == occupied # last
        po1 == IF changed THEN occupied ELSE pend_occ
        os1 == IF changed /\ occupied /\ ~pend_occ THEN t ELSE occ_start
        pc1 == IF changed THEN ~occupied ELSE pend_clr
        cs1 == IF changed /\ ~occupied /\ ~pend_clr THEN t ELSE clr_start
        fire_occ == po1 /\ occupied /\ (t - os1) > delay
        fire_clr == pc1 /\ ~occupied /\ (t - cs1) > cooldown
    IN  [emit |-> IF fire_occ THEN "occupied" ELSE IF fire_clr THEN "clear" ELSE "none",
         last |-> IF fire_occ THEN TRUE ELSE IF fire_clr THEN FALSE ELSE last,
         pend_occ |-> IF fire_occ THEN FALSE ELSE po1,
         occ_start |-> os1,
         pend_clr |-> IF fire_clr THEN FALSE ELSE pc1,
         clr_start |-> cs1]

\* variant of debounce_endpoint: 'occupied' is reported whenever the raw value
\* is occupied and the delay has passed, pending or not
debounce_endpoint_ReportsEveryPoll(occupied, last, pend_occ, occ_start, pend_clr, clr_start, delay, cooldown, t) ==
    LET changed == occupied # last
        po1 == IF changed THEN occupied ELSE pend_occ
        os1 == IF changed /\ occupied /\ ~pend_occ THEN t ELSE occ_start
        pc1 == IF changed THEN ~occupied ELSE pend_clr
        cs1 == IF changed /\ ~occupied /\ ~pend_clr THEN t ELSE clr_start
        fire_occ == occupied /\ (delay = 0 \/ (t - os1) >= delay)
        fire_clr == pc1 /\ ~occupied /\ (cooldown = 0 \/ (t - cs1) >= cooldown)
    IN  [emit |-> IF fire_occ THEN "occupied" ELSE IF fire_clr THEN "clear" ELSE "none",
         last |-> IF fire_occ THEN TRUE ELSE IF fire_clr THEN FALSE ELSE last,
         pend_occ |-> IF fire_occ THEN FALSE ELSE po1,
         occ_start |-> os1,
         pend_clr |-> IF fire_clr THEN FALSE ELSE pc1,
         clr_start |-> cs1]

\* variant of debounce_endpoint: a report leaves its pending flag set
debounce_endpoint_KeepsPending(occupied, last, pend_occ, occ_start, pend_clr, clr_start, delay, cooldown, t) ==
    LET changed == occupied # last
        po1 == IF changed THEN occupied ELSE pend_occ
        os1 == IF changed /\ occupied /\ ~pend_occ THEN t ELSE occ_start
        pc1 == IF changed THEN ~occupied ELSE pend_clr
        cs1 == IF changed /\ ~occupied /\ ~pend_clr THEN t ELSE clr_start
        fire_occ == po1 /\ occupied /\ (delay = 0 \/ (t - os1) >= delay)
        fire_clr == pc1 /\ ~occupied /\ (cooldown = 0 \/ (t - cs1) >= cooldown)
    IN  [emit |-> IF fire_occ THEN "occupied" ELSE IF fire_clr THEN "clear" ELSE "none",
         last |-> IF fire_occ THEN TRUE ELSE IF fire_clr THEN FALSE ELSE last,
         pend_occ |-> po1,
         occ_start |-> os1,
         pend_clr |-> pc1,
         clr_start |-> cs1]

\* the three blocks of sensor_poll_cb for one endpoint, executed in order:
\* change detection, pending-occupied check, pending-clear check
debounce_endpoint(occupied, last, pend_occ, occ_start, pend_clr, clr_start, delay, cooldown, t) ==
    LET changed == occupied # last
        \* if (occupied != s_last) { ... }
        po1 == IF changed THEN occupied ELSE pend_occ
        os1 == IF changed /\ occupied /\ ~pend_occ THEN t ELSE occ_start
        pc1 == IF changed THEN ~occupied ELSE pend_clr
        cs1 == IF changed /\ ~occupied /\ ~pend_clr THEN t ELSE clr_start
        \* if (s_pending_occupied && occupied) { if (delay == 0 || elapsed >= delay) ... }
        fire_occ == po1 /\ occupied /\ (delay = 0 \/ (t - os1) >= delay)
        \* if (s_pending_clear && !occupied) { if (cooldown == 0 || elapsed >= cooldown) ... }
        fire_clr == pc1 /\ ~occupied /\ (cooldown = 0 \/ (t - cs1) >= cooldown)
    IN  [emit |-> IF fire_occ THEN "occupied" ELSE IF fire_clr THEN "clear" ELSE "none",
         last |-> IF fire_occ THEN TRUE ELSE IF fire_clr THEN FALSE ELSE last,
         pend_occ |-> IF fire_occ THEN FALSE ELSE po1,
         occ_start |-> os1,
         pend_clr |-> IF fire_clr THEN FALSE ELSE pc1,
         clr_start |-> cs1]

debounce_of(state, e) ==
    debounce_endpoint(raw_occupancy(state, e), s_last_occ[e],
                      s_pending_occupied[e], s_occupied_start_time[e],
                      s_pending_clear[e], s_clear_start_time[e],
                      occupancy_delay[e], occupancy_cooldown[e], now)

\* the periodic callback; it does nothing while the network is not joined
sensor_poll_cb ==
    IF ~s_network_joined
    THEN UNCHANGED <<s_last_occ, s_pending_occupied, s_occupied_start_time,
                     s_pending_clear, s_clear_start_time, s_last_target_count,
                     obsRaw, obsSince>>
    ELSE LET d == [e \in Endpoints |-> debounce_of(s_state, e)] IN
         /\ s_last_occ' = [e \in Endpoints |-> d[e].last]
         /\ s_pending_occupied' = [e \in Endpoints |-> d[e].pend_occ]
         /\ s_occupied_start_time' = [e \in Endpoints |-> d[e].occ_start]
         /\ s_pending_clear' = [e \in Endpoints |-> d[e].pend_clr]
         /\ s_clear_start_time' = [e \in Endpoints |-> d[e].clr_start]
         /\ s_last_target_count' = s_state.target_count_effective
         /\ obsRaw' = [e \in Endpoints |-> raw_occupancy(s_state, e)]
         /\ obsSince' = [e \in Endpoints |->
                           IF raw_occupancy(s_state, e) # obsRaw[e] THEN now ELSE obsSince[e]]

\* inputs of the debouncer model: nobody, one target inside the zones, one
\* target outside of them
DebPayloads == {RawAbsent \o RawAbsent \o RawAbsent,
                RawA \o RawAbsent \o RawAbsent,
                RawB \o RawAbsent \o RawAbsent}

\* all five zones enabled on the same area (applied at start-up by ld2450_set_zones)
DebZones == MkZones(ZoneNear(TRUE), ZoneNear(TRUE), ZoneNear(TRUE), ZoneNear(TRUE), ZoneNear(TRUE))

DebIdle ==
    /\ now = 0
    /\ s_network_joined = FALSE
    /\ s_last_occ = [e \in Endpoints |-> FALSE]
    /\ s_pending_occupied = [e \in Endpoints |-> FALSE]
    /\ s_occupied_start_time = [e \in Endpoints |-> 0]
    /\ s_pending_clear = [e \in Endpoints |-> FALSE]
    /\ s_clear_start_time = [e \in Endpoints |-> 0]
    /\ s_last_target_count = 0
    /\ obsRaw = [e \in Endpoints |-> FALSE]
    /\ obsSince = [e \in Endpoints |-> 0]

(***************************************************************************)
(* Stream parser: ld2450_parser_feed (ld2450_parser.c)                     *)
(***************************************************************************)
LD2450_UPDATE_FRAME_LEN_TOTAL == 30
LD2450_UPDATE_PAYLOAD_LEN == 24
LD2450_END0 == 85
LD2450_END1 == 204
k_update_header == <<170, 255, 3, 0>>
PARSER_INITIAL_CAP == 1024
PARSER_MAX_LEN == 8192
PARSER_KEEP == 64

\* variant of buf_consume: the buffer is emptied whatever n is
buf_consume_Clears(b, n) == <<>>

\* variant of buf_consume: a resynchronisation (n = 1) drops a whole frame
\* length instead of one byte
buf_consume_DropsCandidate(b, n) ==
    LET m == IF n = 1 THEN LD2450_UPDATE_FRAME_LEN_TOTAL ELSE n
    IN  IF m >= Len(b) THEN <<>> ELSE SubSeq(b, m + 1, Len(b))

\* buf_consume: drop the first n bytes of the buffer
buf_consume(b, n) == IF n >= Len(b) THEN <<>> ELSE SubSeq(b, n + 1, Len(b))

\* find_update_header: 0-based index of the first header in b, or -1
RECURSIVE find_from(_, _)
find_from(b, i) ==
    IF i > Len(b) - 4 THEN -1
    ELSE IF SubSeq(b, i + 1, i + 4) = k_update_header THEN i
    ELSE find_from(b, i + 1)

find_update_header(b) == IF Len(b) < 4 THEN -1 ELSE find_from(b, 0)

\* the for (;;) loop of ld2450_parser_feed; n counts the calls of
\* parse_update_payload
RECURSIVE feed_loop(_, _, _, _)
feed_loop(b, rep, parsed_any, n) ==
    LET pos == find_update_header(b) IN
    IF pos < 0
    THEN [buf |-> IF Len(b) > 3 THEN buf_consume(b, Len(b) - 3) ELSE b,
          report |-> rep, ret |-> parsed_any, n |-> n]
    ELSE LET b1 == IF pos > 0 THEN buf_consume(b, pos) ELSE b IN
         IF Len(b1) < LD2450_UPDATE_FRAME_LEN_TOTAL
         THEN [buf |-> b1, report |-> rep, ret |-> parsed_any, n |-> n]
         ELSE IF b1[4 + LD2450_UPDATE_PAYLOAD_LEN + 1] # LD2450_END0
                 \/ b1[4 + LD2450_UPDATE_PAYLOAD_LEN + 2] # LD2450_END1
         THEN feed_loop(buf_consume(b1, 1), rep, parsed_any, n)
         ELSE feed_loop(buf_consume(b1, LD2450_UPDATE_FRAME_LEN_TOTAL),
                        parse_update_payload(SubSeq(b1, 5, 4 + LD2450_UPDATE_PAYLOAD_LEN)),
                        TRUE, n + 1)

\* variant of scan_step: a candidate whose footer does not match is left in
\* the buffer
scan_step_KeepsBadCandidate(b, rep, parsed_any, n) ==
    LET pos == find_update_header(b) IN
    IF pos < 0
    THEN [buf |-> IF Len(b) > 3 THEN buf_consume(b, Len(b) - 3) ELSE b,
          report |-> rep, ret |-> parsed_any, n |-> n, done |-> TRUE]
    ELSE LET b1 == IF pos > 0 THEN buf_consume(b, pos) ELSE b IN
         IF Len(b1) < LD2450_UPDATE_FRAME_LEN_TOTAL
         THEN [buf |-> b1, report |-> rep, ret |-> parsed_any, n |-> n, done |-> TRUE]
         ELSE IF b1[4 + LD2450_UPDATE_PAYLOAD_LEN + 1] # LD2450_END0
                 \/ b1[4 + LD2450_UPDATE_PAYLOAD_LEN + 2] # LD2450_END1
         THEN [buf |-> b1, report |-> rep, ret |-> parsed_any, n |-> n, done |-> FALSE]
         ELSE [buf |-> buf_consume(b1, LD2450_UPDATE_FRAME_LEN_TOTAL),
               report |-> parse_update_payload(SubSeq(b1, 5, 4 + LD2450_UPDATE_PAYLOAD_LEN)),
               ret |-> TRUE, n |-> n + 1, done |-> FALSE]

\* one iteration of the for (;;) loop of ld2450_parser_feed; done tells that
\* the iteration left the loop through a break
scan_step(b, rep, parsed_any, n) ==
    LET pos == find_update_header(b) IN
    IF pos < 0
    THEN [buf |-> IF Len(b) > 3 THEN buf_consume(b, Len(b) - 3) ELSE b,
          report |-> rep, ret |-> parsed_any, n |-> n, done |-> TRUE]
    ELSE LET b1 == IF pos > 0 THEN buf_consume(b, pos) ELSE b IN
         IF Len(b1) < LD2450_UPDATE_FRAME_LEN_TOTAL
         THEN [buf |-> b1, report |-> rep, ret |-> parsed_any, n |-> n, done |-> TRUE]
         ELSE IF b1[4 + LD2450_UPDATE_PAYLOAD_LEN + 1] # LD2450_END0
                 \/ b1[4 + LD2450_UPDATE_PAYLOAD_LEN + 2] # LD2450_END1
         THEN [buf |-> buf_consume(b1, 1), report |-> rep, ret |-> parsed_any, n |-> n,
               done |-> FALSE]
         ELSE [buf |-> buf_consume(b1, LD2450_UPDATE_FRAME_LEN_TOTAL),
               report |-> parse_update_payload(SubSeq(b1, 5, 4 + LD2450_UPDATE_PAYLOAD_LEN)),
               ret |-> TRUE, n |-> n + 1, done |-> FALSE]

\* new capacity after the growth loop: while (new_cap < need) new_cap *= 2
RECURSIVE grow_cap(_, _)
grow_cap(cap, need) == IF cap >= need THEN cap ELSE grow_cap(cap * 2, need)

\* variant of ld2450_parser_feed: the new bytes are copied to the start of the
\* buffer instead of behind the bytes it already holds
ld2450_parser_feed_Overwrites(b, cap, rep, data, alloc_ok) ==
    IF Len(data) = 0
    THEN [buf |-> b, cap |-> cap, report |-> rep, ret |-> FALSE, n |-> 0, seen |-> b]
    ELSE LET r == feed_loop(data, rep, FALSE, 0)
         IN  [buf |-> r.buf, cap |-> cap, report |-> r.report, ret |-> r.ret,
              n |-> r.n, seen |-> data]

\* variant of ld2450_parser_feed: reports success as soon as a header is buffered
ld2450_parser_feed_TrueOnHeader(b, cap, rep, data, alloc_ok) ==
    IF Len(data) = 0
    THEN [buf |-> b, cap |-> cap, report |-> rep, ret |-> FALSE, n |-> 0, seen |-> b]
    ELSE LET r == feed_loop(b \o data, rep, FALSE, 0)
         IN  [buf |-> r.buf, cap |-> cap, report |-> r.report,
              ret |-> (r.ret \/ find_update_header(r.buf) >= 0),
              n |-> r.n, seen |-> b \o data]

\* variant of ld2450_parser_feed: a call that decodes nothing leaves all the
\* bytes in the buffer
ld2450_parser_feed_KeepsUnparsed(b, cap, rep, data, alloc_ok) ==
    IF Len(data) = 0
    THEN [buf |-> b, cap |-> cap, report |-> rep, ret |-> FALSE, n |-> 0, seen |-> b]
    ELSE LET r == feed_loop(b \o data, rep, FALSE, 0)
         IN  [buf |-> IF r.n = 0 THEN b \o data ELSE r.buf, cap |-> cap,
              report |-> r.report, ret |-> r.ret, n |-> r.n, seen |-> b \o data]

\* ld2450_parser_feed(p, data, len) on buffer b with capacity cap and report
\* rep; alloc_ok is the outcome of realloc when the buffer has to grow
ld2450_parser_feed(b, cap, rep, data, alloc_ok) ==
    IF Len(data) = 0
    THEN [buf |-> b, cap |-> cap, report |-> rep, ret |-> FALSE, n |-> 0, seen |-> b]
    ELSE IF Len(b) + Len(data) > cap /\ ~alloc_ok
    THEN [buf |-> b, cap |-> cap, report |-> rep, ret |-> FALSE, n |-> 0, seen |-> b]
    ELSE LET cap1 == grow_cap(cap, Len(b) + Len(data))
             b1 == b \o data
             b2 == IF Len(b1) > PARSER_MAX_LEN
                   THEN buf_consume(b1, Len(b1) - PARSER_KEEP) ELSE b1
             r == feed_loop(b2, rep, FALSE, 0)
         IN  [buf |-> r.buf, cap |-> cap1, report |-> r.report, ret |-> r.ret,
              n |-> r.n, seen |-> b2]

\* ---- inputs ----
GoodFooter == <<LD2450_END0, LD2450_END1>>
\* a frame on the wire
Frame(payload, footer) == k_update_header \o payload \o footer

\* the two frames of the host test (make_frame with y0 = 0x8010 and 0x0000)
PayT == <<16, 0, 16, 128, 1, 0, 1, 0,  0, 0, 0, 0, 0, 0, 1, 0,  8, 0, 32, 128, 2, 0, 1, 0>>
PayT2 == <<16, 0, 0, 0, 1, 0, 1, 0,  0, 0, 0, 0, 0, 0, 1, 0,  8, 0, 32, 128, 2, 0, 1, 0>>
\* a payload whose last four bytes read like a frame header
PayHdr == <<16, 0, 16, 128, 1, 0, 1, 0,  0, 0, 0, 0, 0, 0, 1, 0,  8, 0, 32, 128, 170, 255, 3, 0>>
\* a payload whose third target has raw y = 0xCC55 (bytes 0x55, 0xCC)
PayFtr == <<16, 0, 16, 128, 1, 0, 1, 0,  0, 0, 0, 0, 0, 0, 1, 0,  8, 0, 85, 204, 2, 0, 1, 0>>
ParsePayloads == {PayT, PayT2, PayHdr, PayFtr}
BadFooter == <<0, 0>>
\* the garbage the host test feeds first
Garbage == <<0, 17, 34, 51, 68, 85>>

Scenario(kind, first, footer, second) ==
    [kind |-> kind, first |-> first, footer |-> footer, second |-> second]

\* bytes between a stray header and the frame that follows it: plain ones, and
\* ones that read like another header
JunkPlain == <<1, 2, 3, 4, 5, 6>>
JunkHdr == k_update_header \o <<0, 0>>

\* one valid frame; a frame (valid or with a bad footer) followed by a valid
\* frame; bytes without any frame; a stray header and a few bytes followed by
\* a valid frame that begins inside the 30 bytes the stray header announces
Scenarios ==
    {Scenario("one", a, GoodFooter, a) : a \in ParsePayloads}
    \cup {Scenario("two", a, f, b) : a \in {PayT, PayHdr}, f \in {GoodFooter, BadFooter},
                                     b \in {PayT2, PayFtr}}
    \cup {Scenario("garbage", PayT, BadFooter, PayT)}
    \cup {Scenario("inside", j, BadFooter, b) : j \in {JunkPlain, JunkHdr}, b \in {PayT2, PayFtr}}

StreamOf(sc) ==
    IF sc.kind = "one" THEN Frame(sc.first, GoodFooter)
    ELSE IF sc.kind = "inside" THEN k_update_header \o sc.first \o Frame(sc.second, GoodFooter)
    ELSE IF sc.kind = "two" THEN Frame(sc.first, sc.footer) \o Frame(sc.second, GoodFooter)
    ELSE Garbage \o Garbage

\* state after ld2450_parser_create, nothing to feed
ParIdle ==
    /\ p_buf = <<>>
    /\ p_cap = PARSER_INITIAL_CAP
    /\ stream = <<>>
    /\ scen = Scenario("garbage", PayT, BadFooter, PayT)
    /\ fed = 0
    /\ feed_calls = 0
    /\ feed_k = 0
    /\ feed_in = <<>>
    /\ feed_ret = FALSE
    /\ feed_n = 0
    /\ feed_total = 0

\* state after ld2450_parser_create, with the bytes the UART is going to deliver
ParInit ==
    /\ p_buf = <<>>
    /\ p_cap = PARSER_INITIAL_CAP
    /\ \E sc \in Scenarios : scen = sc /\ stream = StreamOf(sc)
    /\ fed = 0
    /\ feed_calls = 0
    /\ feed_k = 0
    /\ feed_in = <<>>
    /\ feed_ret = FALSE
    /\ feed_n = 0
    /\ feed_total = 0

\* one call feed(data) and its bookkeeping
FeedCall(data) ==
    \E alloc_ok \in BOOLEAN :
        /\ alloc_ok \/ Len(p_buf) + Len(data) > p_cap
        /\ LET r == ld2450_parser_feed(p_buf, p_cap, report, data, alloc_ok) IN
            /\ p_buf' = r.buf
            /\ p_cap' = r.cap
            /\ report' = r.report
            /\ feed_ret' = r.ret
            /\ feed_n' = r.n
            /\ feed_total' = feed_total + r.n
            /\ feed_in' = r.seen
            /\ feed_k' = Len(data)

\* the ingestion task hands the next k bytes of the stream to the parser
ParserFeed(k) ==
    /\ feed_calls < MaxFeeds
    /\ k \in 0..(Len(stream) - fed)
    /\ FeedCall(SubSeq(stream, fed + 1, fed + k))
    /\ fed' = fed + k
    /\ feed_calls' = feed_calls + 1
    /\ UNCHANGED <<stream, scen>>
    /\ UNCHANGED <<s_cfg, s_zones, s_state, drvLast>>
    /\ UNCHANGED <<cmdVars, debVars, apiVars, ackVars, appVars>>

\* line noise arrives before the stream starts (the host test's first feed)
ParserFeedGarbage ==
    /\ fed = 0
    /\ feed_calls = 0
    /\ p_buf = <<>>
    /\ FeedCall(Garbage)
    /\ UNCHANGED <<stream, scen, fed, feed_calls>>
    /\ UNCHANGED <<s_cfg, s_zones, s_state, drvLast>>
    /\ UNCHANGED <<cmdVars, debVars, apiVars, ackVars, appVars>>

(***************************************************************************)
(* Specifications                                                          *)
(***************************************************************************)
CmdInit ==
    /\ rxPc = "top"
    /\ s_rx_pause_requested = FALSE
    /\ s_rx_paused_sem = 0
    /\ notifyValue = 0
    /\ uartRx = <<>>
    /\ s_cmd_mutex = 0
    /\ pc = [c \in Callers |-> "idle"]
    /\ cmd_id = [c \in Callers |-> CMD_SINGLE_TARGET]
    /\ err = [c \in Callers |-> ESP_OK]
    /\ ret = [c \in Callers |-> "none"]
    /\ log = [c \in Callers |-> <<>>]

\* delay and cooldown as persisted in the configuration when nothing is tuned
DebInit ==
    /\ DebIdle
    /\ occupancy_delay = [e \in Endpoints |-> MaxDelay]
    /\ occupancy_cooldown = [e \in Endpoints |-> 0]

Init == CmdInit /\ DrvInit /\ DebInit /\ ParIdle /\ AckIdle /\ AppIdle

\* hand-off between the ingestion task and the command module
Next ==
    \/ RxCheck
    \/ RxGive
    \/ RxWake
    \/ RxRead
    \/ SensorData
    \/ \E c \in Callers : Call(c)
    \/ \E c \in Callers : Lock(c)
    \/ \E c \in Callers : PauseRequest(c)
    \/ \E c \in Callers : PauseTaken(c)
    \/ \E c \in Callers : PauseTimeout(c)
    \/ \E c \in Callers : EnterSend(c)
    \/ \E c \in Callers : EnterAck(c)
    \/ \E c \in Callers : CmdSend(c)
    \/ \E c \in Callers : CmdAck(c)
    \/ \E c \in Callers : ExitSend(c)
    \/ \E c \in Callers : ExitAck(c)
    \/ \E c \in Callers : Resume(c)
    \/ \E c \in Callers : Unlock(c)

Spec == Init /\ [][Next]_vars

\* the hand-off against a sensor that answers every frame written to it with
\* a correct acknowledgement (right command word, status 0)
EchoAck(id) == <<Ack(AckWord(id), 0)>>

EchoEnterSend == \E c \in Callers : EnterSend(c) /\ uartRx' = EchoAck(CMD_ENABLE_CONF)
EchoCmdSend == \E c \in Callers : CmdSend(c) /\ uartRx' = EchoAck(cmd_id[c])
EchoExitSend == \E c \in Callers : ExitSend(c) /\ uartRx' = EchoAck(CMD_DISABLE_CONF)

EchoNext ==
    \/ RxCheck
    \/ RxGive
    \/ RxWake
    \/ RxRead
    \/ SensorData
    \/ \E c \in Callers : Call(c)
    \/ \E c \in Callers : Lock(c)
    \/ \E c \in Callers : PauseRequest(c)
    \/ \E c \in Callers : PauseTaken(c)
    \/ \E c \in Callers : PauseTimeout(c)
    \/ EchoEnterSend
    \/ \E c \in Callers : EnterAck(c)
    \/ EchoCmdSend
    \/ \E c \in Callers : CmdAck(c)
    \/ EchoExitSend
    \/ \E c \in Callers : ExitAck(c)
    \/ \E c \in Callers : Resume(c)
    \/ \E c \in Callers : Unlock(c)

SpecEcho == Init /\ [][EchoNext]_vars

\* the ingestion task is created with priority 10, the highest in the
\* firmware: whenever it is ready to run it is scheduled. The callers get no
\* fairness: a command may be issued or not.
RxFairness ==
    /\ WF_vars(RxCheck)
    /\ WF_vars(RxGive)
    /\ WF_vars(RxWake)
    /\ WF_vars(RxRead)

\* the hand-off with a scheduled ingestion task and a sensor that answers
SpecLive == Init /\ [][EchoNext]_vars /\ RxFairness

\* per-frame pipeline of the ingestion task with the runtime mutators
TrackFrame == \E payload \in Payloads : IngestFrame(payload) /\ UNCHANGED <<cmdVars, debVars, parVars, apiVars, ackVars, appVars>>
TrackSetEnabled == \E b \in BOOLEAN : ld2450_set_enabled(b) /\ UNCHANGED <<cmdVars, debVars, parVars, apiVars, ackVars, appVars>>
TrackSetMode ==
    \E m \in {LD2450_TRACK_MULTI, LD2450_TRACK_SINGLE} :
        ld2450_set_tracking_mode(m) /\ UNCHANGED <<cmdVars, debVars, parVars, apiVars, ackVars, appVars>>
TrackSetZones == \E zs \in ZoneSets : ld2450_set_zones(zs) /\ UNCHANGED <<cmdVars, debVars, parVars, apiVars, ackVars, appVars>>

TrackNext ==
    \/ TrackFrame
    \/ TrackSetEnabled
    \/ TrackSetMode
    \/ TrackSetZones

SpecTrack == Init /\ [][TrackNext]_vars

\* occupancy debouncer fed by the ingestion task; the overall endpoint and the
\* zone endpoints have their own delay and cooldown
DebCfgInit ==
    /\ CmdInit
    /\ DrvInit
    /\ DebIdle
    /\ ParIdle
    /\ AckIdle /\ AppIdle
    /\ \E d0 \in {0, MaxDelay} : \E dz \in {0, MaxDelay} :
           occupancy_delay = [e \in Endpoints |-> IF e = 0 THEN d0 ELSE dz]
    /\ \E c0 \in {0, MaxDelay} : \E cz \in {0, MaxDelay} :
           occupancy_cooldown = [e \in Endpoints |-> IF e = 0 THEN c0 ELSE cz]

DebApplyZones ==
    /\ drvLast = "init"
    /\ ld2450_set_zones(DebZones)
    /\ UNCHANGED <<cmdVars, debVars, parVars, apiVars, ackVars, appVars>>

DebFrame ==
    /\ drvLast # "init"
    /\ \E payload \in DebPayloads : IngestFrame(payload)
    /\ UNCHANGED <<cmdVars, debVars, parVars, apiVars, ackVars, appVars>>

DebTick ==
    /\ now < MaxTime
    /\ now' = now + 1
    /\ UNCHANGED <<s_network_joined, occupancy_delay, occupancy_cooldown, s_last_occ,
                   s_pending_occupied, s_occupied_start_time, s_pending_clear,
                   s_clear_start_time, s_last_target_count, obsRaw, obsSince>>
    /\ UNCHANGED <<cmdVars, drvVars, parVars, apiVars, ackVars, appVars>>

DebPoll ==
    /\ sensor_poll_cb
    /\ UNCHANGED <<now, s_network_joined, occupancy_delay, occupancy_cooldown>>
    /\ UNCHANGED <<cmdVars, drvVars, parVars, apiVars, ackVars, appVars>>

NetworkJoined ==
    /\ ~s_network_joined
    /\ s_network_joined' = TRUE
    /\ UNCHANGED <<now, occupancy_delay, occupancy_cooldown, s_last_occ,
                   s_pending_occupied, s_occupied_start_time, s_pending_clear,
                   s_clear_start_time, s_last_target_count, obsRaw, obsSince>>
    /\ UNCHANGED <<cmdVars, drvVars, parVars, apiVars, ackVars, appVars>>

NetworkLeft ==
    /\ s_network_joined
    /\ s_network_joined' = FALSE
    /\ UNCHANGED <<now, occupancy_delay, occupancy_cooldown, s_last_occ,
                   s_pending_occupied, s_occupied_start_time, s_pending_clear,
                   s_clear_start_time, s_last_target_count, obsRaw, obsSince>>
    /\ UNCHANGED <<cmdVars, drvVars, parVars, apiVars, ackVars, appVars>>

DebNext ==
    \/ DebApplyZones
    \/ DebFrame
    \/ DebTick
    \/ DebPoll
    \/ NetworkJoined
    \/ NetworkLeft

SpecDeb == DebCfgInit /\ [][DebNext]_vars

\* the debouncer with the configuration nothing has tuned: the default delay
\* (250 ms, MaxDelay clock units) and no cooldown on every endpoint
SpecDebDefault == Init /\ [][DebNext]_vars

\* ---- Zigbee signals and the poll alarm (zigbee_signal_handlers.c) ----
\* esp_zb_scheduler_alarm(cb, param, ms): one more pending alarm for cb
esp_zb_scheduler_alarm(pending) == pending + 1

\* sensor_bridge_start: configure reporting, schedule the first poll
sensor_bridge_start == poll_alarms' = esp_zb_scheduler_alarm(poll_alarms)

\* ESP_ZB_ZDO_SIGNAL_SKIP_STARTUP: start network steering
SignalSkipStartup ==
    /\ zb_phase = "boot"
    /\ zb_phase' = "steering"
    /\ UNCHANGED <<poll_alarms, retry_alarms, nvs_zones>>
    /\ UNCHANGED <<cmdVars, drvVars, debVars, parVars, apiVars, ackVars>>

\* ESP_ZB_BDB_SIGNAL_DEVICE_FIRST_START / _DEVICE_REBOOT
SignalDeviceStart(ok, factory_new) ==
    /\ zb_phase = "boot"
    /\ IF ~ok
       THEN zb_phase' = "failed" /\ UNCHANGED <<s_network_joined, poll_alarms>>
       ELSE IF factory_new
       THEN zb_phase' = "steering" /\ UNCHANGED <<s_network_joined, poll_alarms>>
       ELSE /\ zb_phase' = "joined"
            /\ s_network_joined' = TRUE
            /\ sensor_bridge_start
    /\ UNCHANGED <<retry_alarms, nvs_zones>>
    /\ UNCHANGED <<now, occupancy_delay, occupancy_cooldown, s_last_occ,
                   s_pending_occupied, s_occupied_start_time, s_pending_clear,
                   s_clear_start_time, s_last_target_count, obsRaw, obsSince>>
    /\ UNCHANGED <<cmdVars, drvVars, parVars, apiVars, ackVars>>

\* ESP_ZB_BDB_SIGNAL_STEERING
SignalSteering(ok) ==
    /\ zb_phase = "steering"
    /\ poll_alarms < MaxAlarms
    /\ IF ok
       THEN /\ zb_phase' = "joined"
            /\ s_network_joined' = TRUE
            /\ sensor_bridge_start
            /\ UNCHANGED retry_alarms
       ELSE /\ zb_phase' = "waiting"
            /\ retry_alarms' = esp_zb_scheduler_alarm(retry_alarms)
            /\ UNCHANGED <<s_network_joined, poll_alarms>>
    /\ UNCHANGED nvs_zones
    /\ UNCHANGED <<now, occupancy_delay, occupancy_cooldown, s_last_occ,
                   s_pending_occupied, s_occupied_start_time, s_pending_clear,
                   s_clear_start_time, s_last_target_count, obsRaw, obsSince>>
    /\ UNCHANGED <<cmdVars, drvVars, parVars, apiVars, ackVars>>

\* ESP_ZB_ZDO_SIGNAL_LEAVE
SignalLeave ==
    /\ zb_phase = "joined"
    /\ zb_phase' = "waiting"
    /\ s_network_joined' = FALSE
    /\ retry_alarms' = esp_zb_scheduler_alarm(retry_alarms)
    /\ UNCHANGED <<poll_alarms, nvs_zones>>
    /\ UNCHANGED <<now, occupancy_delay, occupancy_cooldown, s_last_occ,
                   s_pending_occupied, s_occupied_start_time, s_pending_clear,
                   s_clear_start_time, s_last_target_count, obsRaw, obsSince>>
    /\ UNCHANGED <<cmdVars, drvVars, parVars, apiVars, ackVars>>

\* the alarm of steering_retry_cb fires: steering is started again
steering_retry_cb ==
    /\ retry_alarms > 0
    /\ retry_alarms' = retry_alarms - 1
    /\ zb_phase' = "steering"
    /\ UNCHANGED <<poll_alarms, nvs_zones>>
    /\ UNCHANGED <<cmdVars, drvVars, debVars, parVars, apiVars, ackVars>>

\* an alarm of sensor_poll_cb fires: the callback schedules itself again,
\* then evaluates the state if the network is joined
PollAlarm ==
    /\ poll_alarms > 0
    /\ poll_alarms' = esp_zb_scheduler_alarm(poll_alarms - 1)
    /\ sensor_poll_cb
    /\ UNCHANGED <<zb_phase, retry_alarms, nvs_zones>>
    /\ UNCHANGED <<now, s_network_joined, occupancy_delay, occupancy_cooldown>>
    /\ UNCHANGED <<cmdVars, drvVars, parVars, apiVars, ackVars>>

NetNext ==
    \/ DebApplyZones
    \/ DebFrame
    \/ DebTick
    \/ SignalSkipStartup
    \/ \E ok \in BOOLEAN : \E factory_new \in BOOLEAN : SignalDeviceStart(ok, factory_new)
    \/ \E ok \in BOOLEAN : SignalSteering(ok)
    \/ SignalLeave
    \/ steering_retry_cb
    \/ PollAlarm

SpecNet == Init /\ [][NetNext]_vars

\* ---- zone vertex writes and the saved configuration ----
\* nvs_config_save_zone: the zone goes into the saved configuration
nvs_config_save_zone(zone_index, zone) == nvs_zones' = [nvs_zones EXCEPT ![zone_index] = zone]

\* handle_set_attr_value, zone vertex write: read the live zones, change one
\* coordinate of the zone, enable it, hand it to ld2450_set_zone (whose
\* result is not looked at) and save it
AttrWriteVertex(zone_idx, attr_id, coord_val) ==
    /\ drvLast # "init"
    /\ LET vi == attr_id \div 2
           old == s_zones[zone_idx]
           pt == IF attr_id % 2 = 0 THEN [old.v[vi] EXCEPT !.x_mm = coord_val]
                                     ELSE [old.v[vi] EXCEPT !.y_mm = coord_val]
           zone == [enabled |-> TRUE, v |-> [old.v EXCEPT ![vi] = pt]]
           accepted == set_check(ApiCall("set_zone", FALSE, FALSE, zone_idx, s_zones, zone)) = ESP_OK
       IN  /\ s_zones' = IF accepted THEN [s_zones EXCEPT ![zone_idx] = zone] ELSE s_zones
           /\ drvLast' = IF accepted THEN "set" ELSE drvLast
           /\ nvs_config_save_zone(zone_idx, zone)
    /\ UNCHANGED <<s_cfg, report, s_state>>
    /\ UNCHANGED <<zb_phase, poll_alarms, retry_alarms>>
    /\ UNCHANGED <<cmdVars, debVars, parVars, apiVars, ackVars>>

\* apply_saved_config at start-up: ld2450_set_zones(cfg->zones, 5), which
\* stores the zones only if every one of them passes zone_vertices_sane
apply_saved_config ==
    /\ drvLast = "init"
    /\ s_zones' = IF set_check(ApiCall("set_zones", FALSE, FALSE, 5, nvs_zones, NoZone)) = ESP_OK
                  THEN nvs_zones ELSE s_zones
    /\ drvLast' = "set"
    /\ UNCHANGED <<s_cfg, report, s_state>>
    /\ UNCHANGED <<cmdVars, debVars, parVars, apiVars, ackVars, appVars>>

\* the device restarts: the driver's statics have their initial values
\* again, the saved configuration is what it was
Restart ==
    /\ drvLast # "init"
    /\ s_zones' = DefaultZones
    /\ s_cfg' = DefaultCfg
    /\ report' = ZeroReport
    /\ s_state' = ZeroState
    /\ drvLast' = "init"
    /\ UNCHANGED <<cmdVars, debVars, parVars, apiVars, ackVars, appVars>>

NvsNext ==
    \/ apply_saved_config
    \/ \E zone_idx \in {0, LD2450_ZONE_COUNT - 1} : \E attr_id \in {0, 1, 4} :
           \E coord_val \in {0, 500, -500} : AttrWriteVertex(zone_idx, attr_id, coord_val)
    \/ Restart

SpecNvs == Init /\ [][NvsNext]_vars

\* the stream parser fed with a chosen byte stream in up to MaxFeeds calls
ParseInit == CmdInit /\ DrvInit /\ DebInit /\ ParInit /\ AckIdle /\ AppIdle

ParseFeed == \E k \in 0..(2 * LD2450_UPDATE_FRAME_LEN_TOTAL) : ParserFeed(k)

ParseNext ==
    \/ ParseFeed
    \/ ParserFeedGarbage

SpecParse == ParseInit /\ [][ParseNext]_vars

\* ---- the ingestion loop around the parser, one scan iteration per step ----
\* while (1) { if (s_rx_pause_requested) ...; nobody requests a pause here
ScanTop ==
    /\ rxPc = "top"
    /\ ~s_rx_pause_requested
    /\ rxPc' = "read"
    /\ UNCHANGED <<s_rx_pause_requested, s_rx_paused_sem, notifyValue, uartRx,
                   s_cmd_mutex, pc, cmd_id, err, ret, log>>
    /\ UNCHANGED nonCmdVars

\* uart_read_bytes returns the next k bytes of the stream; with k > 0 the
\* task enters ld2450_parser_feed: growth, memcpy, overflow truncation
ScanRead(k) ==
    /\ rxPc = "read"
    /\ feed_calls < MaxFeeds
    /\ k \in 0..(Len(stream) - fed)
    /\ LET data == SubSeq(stream, fed + 1, fed + k)
           b1 == p_buf \o data
       IN  /\ p_buf' = IF Len(b1) > PARSER_MAX_LEN
                        THEN buf_consume(b1, Len(b1) - PARSER_KEEP) ELSE b1
           /\ p_cap' = grow_cap(p_cap, Len(b1))
           /\ feed_in' = p_buf'
    /\ rxPc' = IF k > 0 THEN "feed" ELSE "top"
    /\ fed' = fed + k
    /\ feed_calls' = feed_calls + 1
    /\ feed_k' = k
    /\ feed_ret' = FALSE
    /\ feed_n' = 0
    /\ UNCHANGED <<stream, scen, feed_total>>
    /\ UNCHANGED <<s_rx_pause_requested, s_rx_paused_sem, notifyValue, uartRx,
                   s_cmd_mutex, pc, cmd_id, err, ret, log>>
    /\ UNCHANGED <<drvVars, debVars, apiVars, ackVars, appVars>>

\* one iteration of the scan loop; the iteration that breaks returns
\* parsed_any, and the task exports the report if that is true and goes back
\* to the top of its loop
ScanStep ==
    /\ rxPc = "feed"
    /\ LET st == scan_step(p_buf, report, feed_ret, feed_n) IN
           /\ p_buf' = st.buf
           /\ report' = st.report
           /\ feed_ret' = st.ret
           /\ feed_n' = st.n
           /\ feed_total' = feed_total + (st.n - feed_n)
           /\ rxPc' = IF st.done THEN "top" ELSE "feed"
           /\ IF st.done /\ st.ret
              THEN s_state' = export_state(s_cfg, s_zones, st.report) /\ drvLast' = "frame"
              ELSE UNCHANGED <<s_state, drvLast>>
    /\ UNCHANGED <<p_cap, stream, scen, fed, feed_calls, feed_k, feed_in>>
    /\ UNCHANGED <<s_cfg, s_zones>>
    /\ UNCHANGED <<s_rx_pause_requested, s_rx_paused_sem, notifyValue, uartRx,
                   s_cmd_mutex, pc, cmd_id, err, ret, log>>
    /\ UNCHANGED <<debVars, apiVars, ackVars, appVars>>

\* the sizes uart_read_bytes returns: nothing, one byte, a frame length and
\* one byte less or more, or all that is left of the stream
ScanFeed ==
    \E k \in {0, 1, LD2450_UPDATE_FRAME_LEN_TOTAL - 1, LD2450_UPDATE_FRAME_LEN_TOTAL,
               LD2450_UPDATE_FRAME_LEN_TOTAL + 1, Len(stream) - fed} : ScanRead(k)

ScanNext ==
    \/ ScanTop
    \/ ScanFeed
    \/ ScanStep

\* the ingestion task runs whenever it is ready (priority 10, the highest)
SpecScan == ParseInit /\ [][ScanNext]_vars /\ WF_vars(ScanTop) /\ WF_vars(ScanStep)

\* the record of the host test frame's first target, and an absent record
RecT0 == <<16, 0, 16, 128, 1, 0, 1, 0>>
RecAbsent == <<0, 0, 0, 0, 0, 0, 1, 0>>

\* the zone test applied to quadrilaterals on a small grid and to the default
\* zone: the zones are applied once at start-up, then frames carry one target
QuadVertices == {Pt(0, 0), Pt(-1, 2), Pt(-3, 2), Pt(-3, 0), Pt(1, 3)}
QuadZones ==
    {Zone(TRUE, a, b, c, d) : a \in QuadVertices, b \in QuadVertices,
                              c \in QuadVertices, d \in QuadVertices}
    \cup {ZoneDefault}
GridPoints == {Pt(x, y) : x \in -3..1, y \in 0..3}
DefaultZonePoints ==
    {Pt(250, 1000), Pt(600, 1000), Pt(0, 500), Pt(1, 500), Pt(250, 500), Pt(499, 500),
     Pt(500, 500), Pt(250, 1500), Pt(501, 500)}

\* the target record the sensor sends for a target at (x, y): x as sign and
\* magnitude, y with the 0x8000 bias
EncodeX(x) == IF x < 0 THEN 32768 + (-x) ELSE x
EncodeY(y) == y + 32768
TargetRecord(pt) ==
    <<EncodeX(pt.x_mm) % 256, EncodeX(pt.x_mm) \div 256,
      EncodeY(pt.y_mm) % 256, EncodeY(pt.y_mm) \div 256, 0, 0, 0, 0>>

ZoneApply ==
    /\ drvLast = "init"
    /\ \E z \in QuadZones : ld2450_set_zones(MkZones(z, NoZone, NoZone, NoZone, NoZone))
    /\ UNCHANGED <<cmdVars, debVars, parVars, apiVars, ackVars, appVars>>

ZoneFrame ==
    /\ \E pt \in GridPoints \cup DefaultZonePoints :
           IngestFrame(TargetRecord(pt) \o RecAbsent \o RecAbsent)
    /\ UNCHANGED <<cmdVars, debVars, parVars, apiVars, ackVars, appVars>>

ZoneNext ==
    \/ ZoneApply
    \/ ZoneFrame

SpecZone == Init /\ [][ZoneNext]_vars

\* the ingestion task, one reading task and one mutating task, interleaved
\* store by store
ApiExport ==
    /\ \/ \E payload \in ApiPayloads : ExportCfg(payload)
       \/ ExportEval
       \/ ExportEnter
       \/ ExportStore
       \/ ExportExit
    /\ UNCHANGED <<cmdVars, debVars, parVars, ackVars, appVars>>

ApiGet ==
    /\ \/ \E kind \in {"state", "zones", "cfg"} : GetCall(kind, FALSE, LD2450_ZONE_COUNT)
       \/ GetEnter
       \/ GetCopy
       \/ GetExit
    /\ UNCHANGED <<cmdVars, debVars, parVars, ackVars, appVars>>

ApiSet ==
    /\ \/ SetCall(ApiCall("set_enabled", FALSE, FALSE, 0, DefaultZones, NoZone))
       \/ SetCall(ApiCall("set_tracking_mode", FALSE, FALSE, LD2450_TRACK_SINGLE, DefaultZones, NoZone))
       \/ \E zs \in {DefaultZones, NearZones} :
              SetCall(ApiCall("set_zones", FALSE, FALSE, LD2450_ZONE_COUNT, zs, NoZone))
       \/ SetEnter
       \/ SetStore
       \/ SetExit
    /\ UNCHANGED <<cmdVars, debVars, parVars, ackVars, appVars>>

ApiNext ==
    \/ ApiExport
    \/ ApiGet
    \/ ApiSet

SpecApi == Init /\ [][ApiNext]_vars

\* the mutators and accessors called with every kind of argument
MutSetCfg ==
    /\ \/ \E b \in BOOLEAN : SetCall(ApiCall("set_enabled", FALSE, b, 0, DefaultZones, NoZone))
       \/ \E b \in BOOLEAN :
              SetCall(ApiCall("set_publish_coords", FALSE, b, 0, DefaultZones, NoZone))
       \/ \E m \in ApiModes :
              SetCall(ApiCall("set_tracking_mode", FALSE, FALSE, m, DefaultZones, NoZone))
    /\ UNCHANGED <<cmdVars, debVars, parVars, ackVars, appVars>>

MutSetZones ==
    /\ \/ \E null \in BOOLEAN, n \in ApiCounts, zs \in ApiZoneSets :
              SetCall(ApiCall("set_zones", null, FALSE, n, zs, NoZone))
       \/ \E null \in BOOLEAN, n \in ApiIndexes, z \in ApiZoneArgs :
              SetCall(ApiCall("set_zone", null, FALSE, n, DefaultZones, z))
    /\ UNCHANGED <<cmdVars, debVars, parVars, ackVars, appVars>>

MutRun ==
    /\ \/ SetEnter
       \/ SetStore
       \/ SetExit
    /\ UNCHANGED <<cmdVars, debVars, parVars, ackVars, appVars>>

MutGet ==
    /\ \/ \E kind \in {"state", "zones", "cfg"}, null \in BOOLEAN, count \in ApiCounts :
              GetCall(kind, null, count)
       \/ GetEnter
       \/ GetCopy
       \/ GetExit
    /\ UNCHANGED <<cmdVars, debVars, parVars, ackVars, appVars>>

MutNext ==
    \/ MutSetCfg
    \/ MutSetZones
    \/ MutRun
    \/ MutGet

SpecMut == Init /\ [][MutNext]_vars

\* the parser fed more than PARSER_MAX_LEN bytes of back-to-back valid frames
\* behind a few bytes of noise, in reads of the ingestion task's size or in
\* one call
RX_BUF_LEN == 256
\* enough frames to exceed PARSER_MAX_LEN even after MaxFeeds small reads
LongBase == (PARSER_MAX_LEN + MaxFeeds * RX_BUF_LEN) \div LD2450_UPDATE_FRAME_LEN_TOTAL
LongFrames == (LongBase + 1)..(LongBase + 4)
LongNoise == 0..4

LongStream(g, f) ==
    [i \in 1..g |-> 17]
    \o [i \in 1..(f * LD2450_UPDATE_FRAME_LEN_TOTAL) |->
            Frame(PayT, GoodFooter)[((i - 1) % LD2450_UPDATE_FRAME_LEN_TOTAL) + 1]]

OverflowInit ==
    /\ CmdInit /\ DrvInit /\ DebInit /\ AckIdle /\ AppIdle
    /\ p_buf = <<>>
    /\ p_cap = PARSER_INITIAL_CAP
    /\ scen = Scenario("long", PayT, GoodFooter, PayT)
    /\ \E g \in LongNoise : \E f \in LongFrames : stream = LongStream(g, f)
    /\ fed = 0
    /\ feed_calls = 0
    /\ feed_k = 0
    /\ feed_in = <<>>
    /\ feed_ret = FALSE
    /\ feed_n = 0
    /\ feed_total = 0

OverflowFeed == \E k \in {RX_BUF_LEN, Len(stream) - fed} : ParserFeed(k)

OverflowNext == OverflowFeed

SpecOverflow == OverflowInit /\ [][OverflowNext]_vars

\* read_ack applied to what the sensor may send back
AckInit ==
    /\ CmdInit /\ DrvInit /\ DebInit /\ ParIdle /\ AppIdle
    /\ ack_expected \in AckExpected
    /\ ack_rx \in AckStreams(ack_expected)
    /\ ack_res = "none"

AckCall == ReadAck /\ UNCHANGED <<cmdVars, drvVars, debVars, parVars, apiVars, appVars>>

AckNext == AckCall

SpecAck == AckInit /\ [][AckNext]_vars

\* the decoder applied to frames whose target records take boundary values
DecodeLo == {0, 1, 255}
DecodeHi == {0, 127, 128, 255}
\* one target record: x, y, speed and resolution, two bytes each
DecodeRecords ==
    {<<xl, xh, yl, yh, sl, sh, 1, 0>> : xl \in DecodeLo, xh \in DecodeHi, yl \in DecodeLo,
                                       yh \in DecodeHi, sl \in DecodeLo, sh \in DecodeHi}
DecodePayloads ==
    {rec \o RecAbsent \o RecT0 : rec \in DecodeRecords}
    \cup {RecT0 \o rec \o RecAbsent : rec \in DecodeRecords}
    \cup {RecAbsent \o RecT0 \o rec : rec \in DecodeRecords}
    \cup {PayT}

DecodeInit ==
    /\ CmdInit /\ DrvInit /\ DebInit /\ AckIdle /\ AppIdle
    /\ p_buf = <<>>
    /\ p_cap = PARSER_INITIAL_CAP
    /\ \E pl \in DecodePayloads :
           /\ scen = Scenario("one", pl, GoodFooter, pl)
           /\ stream = Frame(pl, GoodFooter)
    /\ fed = 0
    /\ feed_calls = 0
    /\ feed_k = 0
    /\ feed_in = <<>>
    /\ feed_ret = FALSE
    /\ feed_n = 0
    /\ feed_total = 0

DecodeFeed == ParserFeed(LD2450_UPDATE_FRAME_LEN_TOTAL)

DecodeNext ==
    \/ DecodeFeed
    \/ ParserFeedGarbage

SpecDecode == DecodeInit /\ [][DecodeNext]_vars

(***************************************************************************)
(* Properties of the command channel and the hand-off                      *)
(***************************************************************************)
\* positions at which caller c is inside its enter/command/exit exchange
InExchange(c) == pc[c] \in {"enter_ack", "cmd_send", "cmd_ack", "exit_send", "exit_ack"}

\* send_config_command of caller c has returned (the mutex is still held)
Returned(c) == pc[c] = "unlock"

IsEv(e, op, id, res) == e.op = op /\ e.cmd = id /\ e.res = res

\* number of events of kind op in a history
RECURSIVE CountOp(_, _)
CountOp(l, op) ==
    IF l = <<>> THEN 0
    ELSE (IF Head(l).op = op THEN 1 ELSE 0) + CountOp(Tail(l), op)

\* the enter step of history l succeeded / failed
EnterOk(l) ==
    /\ Len(l) >= 3
    /\ IsEv(l[2], "write", CMD_ENABLE_CONF, ESP_OK)
    /\ IsEv(l[3], "ack", CMD_ENABLE_CONF, ESP_OK)
EnterFailed(l) ==
    \/ Len(l) >= 2 /\ IsEv(l[2], "write", CMD_ENABLE_CONF, ESP_FAIL)
    \/ Len(l) >= 3 /\ l[3].op = "ack" /\ l[3].cmd = CMD_ENABLE_CONF /\ l[3].res # ESP_OK

\* C1: the command channel touches the UART only while the ingestion task is
\* paused: during a caller's exchange the task sits in its wake-up wait, never
\* in uart_read_bytes or on its way there.
C1_ExclusiveChannel == \A c \in Callers : InExchange(c) => rxPc = "wait"

\* C6: success is returned only if enter, command and exit frame were each
\* written, in that order, and each got its own successful acknowledgement.
C6_SuccessNeedsThreeAcks ==
    \A c \in Callers :
        (Returned(c) /\ ret[c] = ESP_OK) =>
            \E i \in 1..Len(log[c]) : \E j \in 1..Len(log[c]) : \E k \in 1..Len(log[c]) :
                /\ i + 1 < j /\ j + 1 < k /\ k + 1 <= Len(log[c])
                /\ IsEv(log[c][i], "write", CMD_ENABLE_CONF, ESP_OK)
                /\ IsEv(log[c][i + 1], "ack", CMD_ENABLE_CONF, ESP_OK)
                /\ IsEv(log[c][j], "write", cmd_id[c], ESP_OK)
                /\ IsEv(log[c][j + 1], "ack", cmd_id[c], ESP_OK)
                /\ IsEv(log[c][k], "write", CMD_DISABLE_CONF, ESP_OK)
                /\ IsEv(log[c][k + 1], "ack", CMD_DISABLE_CONF, ESP_OK)

\* C7: whenever an acknowledgement wait of the invocation timed out (enter step
\* or command step), an exit-configuration frame was written afterwards, before
\* send_config_command returned.
C7_TimeoutThenExit ==
    \A c \in Callers :
        Returned(c) =>
            \A i \in 1..Len(log[c]) :
                (log[c][i].op = "ack" /\ log[c][i].res = ESP_ERR_TIMEOUT
                    /\ log[c][i].cmd # CMD_DISABLE_CONF) =>
                    \E k \in (i + 1)..Len(log[c]) :
                        log[c][k].op = "write" /\ log[c][k].cmd = CMD_DISABLE_CONF

\* the command step of history l failed with error e (write failure or bad ack)
CmdStepFailed(l, id, e) ==
    /\ EnterOk(l)
    /\ \/ Len(l) >= 4 /\ IsEv(l[4], "write", id, ESP_FAIL) /\ e = ESP_FAIL
       \/ Len(l) >= 5 /\ l[5].op = "ack" /\ l[5].cmd = id /\ l[5].res = e /\ e # ESP_OK

\* C8: after a successful enter step, a failed command write or a failed
\* command acknowledgement is still followed by a write of the exit frame, and
\* the caller gets the command step's error, not the outcome of the exit.
C8_MidFailureExitsAndKeepsError ==
    \A c \in Callers :
        \A e \in {ESP_FAIL, ESP_ERR_TIMEOUT, ESP_ERR_INVALID_RESPONSE} :
            (Returned(c) /\ CmdStepFailed(log[c], cmd_id[c], e)) =>
                /\ ret[c] = e
                /\ \E k \in 4..Len(log[c]) :
                       log[c][k].op = "write" /\ log[c][k].cmd = CMD_DISABLE_CONF

C8_Witness ==
    \E c \in Callers :
        /\ Returned(c)
        /\ CmdStepFailed(log[c], cmd_id[c], ESP_ERR_INVALID_RESPONSE)
        /\ Len(log[c]) >= 7
        /\ IsEv(log[c][7], "ack", CMD_DISABLE_CONF, ESP_OK)

\* C9: when the enter step fails, the command frame is never written and the
\* caller gets the enter step's error.
C9_EnterFailureAborts ==
    \A c \in Callers :
        EnterFailed(log[c]) =>
            /\ \A k \in 1..Len(log[c]) :
                   ~(log[c][k].op = "write" /\ log[c][k].cmd = cmd_id[c])
            /\ Returned(c) => ret[c] = log[c][IF Len(log[c]) >= 3 /\ log[c][3].op = "ack"
                                             THEN 3 ELSE 2].res

C9_Witness ==
    \E c \in Callers :
        /\ Returned(c)
        /\ EnterFailed(log[c])
        /\ ret[c] = ESP_ERR_TIMEOUT

\* C10: an invocation that requested a pause has sent the wake signal exactly
\* once when it returns, the pause flag is clear at that moment, and no wake
\* signal is sent before the invocation is about to return.
C10_PauseResumePaired ==
    \A c \in Callers :
        /\ Returned(c) =>
              /\ CountOp(log[c], "pause") = 1
              /\ CountOp(log[c], "wake") = 1
              /\ log[c][Len(log[c])].op = "wake"
              /\ ~s_rx_pause_requested
        /\ (~Returned(c)) => CountOp(log[c], "wake") = 0

C10_Witness ==
    \E c \in Callers :
        /\ Returned(c)
        /\ ret[c] = ESP_FAIL
        /\ CountOp(log[c], "wake") = 1

(***************************************************************************)
(* Properties of the tracking selection and the zone evaluation            *)
(***************************************************************************)
\* the ingestion task has just exported the state of a decoded frame
FrameExported == drvLast = "frame"

PresentSlots(r) == {i \in 0..2 : r.targets[i].present}

\* C4: in multi mode with evaluation enabled, after a decoded frame every
\* enabled zone is raw-occupied exactly if some present target of the report,
\* in whichever of the three slots, lies inside or on the boundary of the zone.
C4_MultiZonesSeeAllTargets ==
    (FrameExported /\ s_cfg.enabled /\ s_cfg.mode = LD2450_TRACK_MULTI) =>
        \A zi \in 0..(LD2450_ZONE_COUNT - 1) :
            s_zones[zi].enabled =>
                (s_state.zone_occupied[zi] <=>
                    \E i \in PresentSlots(report) :
                        ld2450_zone_contains_point(s_zones[zi],
                            Pt(report.targets[i].x_mm, report.targets[i].y_mm)))

\* slot i wins the single-target policy among the present slots of r
SingleWinner(r, i) ==
    LET P == PresentSlots(r)
        Pos == {k \in P : r.targets[k].y_mm > 0}
    IN  /\ i \in P
        /\ IF Pos # {}
           THEN /\ i \in Pos
                /\ \A k \in Pos : r.targets[i].y_mm <= r.targets[k].y_mm
                /\ \A k \in Pos : r.targets[k].y_mm = r.targets[i].y_mm => i <= k
           ELSE /\ \A k \in P : Abs(r.targets[i].y_mm) <= Abs(r.targets[k].y_mm)
                /\ \A k \in P : Abs(r.targets[k].y_mm) = Abs(r.targets[i].y_mm) => i <= k

\* C5: in single mode, for a report with a present target, the selected target
\* is the present target with the smallest strictly positive y, or with the
\* smallest |y| when no present target has y > 0; ties go to the lowest slot.
C5_SingleSelectsClosest ==
    (FrameExported /\ s_cfg.mode = LD2450_TRACK_SINGLE /\ report.occupied) =>
        \E i \in 0..2 : SingleWinner(report, i) /\ s_state.selected = report.targets[i]

(***************************************************************************)
(* Properties of the occupancy debouncer                                   *)
(***************************************************************************)
\* C2: from stable Clear, the stable value turns to occupied only when the raw
\* occupancy seen by the evaluations has been occupied for at least the delay
\* without interruption; an evaluation that sees raw flip back to clear
\* cancels the pending timer and leaves the stable value clear, so that a
\* later occupied period is timed from its own start.
C2_OccupiedAfterFullDelay ==
    [][\A e \in Endpoints :
          /\ (~s_last_occ[e] /\ s_last_occ'[e]) =>
                 (now - obsSince'[e]) >= occupancy_delay[e]
          /\ (obsRaw[e] /\ ~obsRaw'[e] /\ ~s_last_occ[e]) =>
                 (~s_pending_occupied'[e] /\ ~s_last_occ'[e])]_vars

\* C3: from stable Occupied, the stable value turns to clear only when the raw
\* occupancy seen by the evaluations has been clear for at least the cooldown
\* without interruption; an evaluation that sees raw flip back to occupied
\* cancels the pending clear timer and leaves the stable value occupied, so
\* that a later clear period is timed from its own start.
C3_ClearAfterFullCooldown ==
    [][\A e \in Endpoints :
          /\ (s_last_occ[e] /\ ~s_last_occ'[e]) =>
                 (now - obsSince'[e]) >= occupancy_cooldown[e]
          /\ (~obsRaw[e] /\ obsRaw'[e] /\ s_last_occ[e]) =>
                 (~s_pending_clear'[e] /\ s_last_occ'[e])]_vars

(***************************************************************************)
(* Serialisation of the public command functions                           *)
(***************************************************************************)
\* caller c is between xSemaphoreTake and xSemaphoreGive of s_cmd_mutex
InSequence(c) == pc[c] \notin {"idle", "lock"}

\* C11: at most one caller is inside its pause/enter/send/exit/resume
\* sequence at any time, and a caller that has not got the mutex yet has
\* issued no pause request and done no channel I/O.
C11_OneCommandInFlight ==
    /\ \A c1 \in Callers : \A c2 \in Callers :
           (c1 # c2) => ~(InSequence(c1) /\ InSequence(c2))
    /\ \A c \in Callers : (~InSequence(c)) => log[c] = <<>>
    /\ \A c \in Callers : InSequence(c) => s_cmd_mutex = c

C11_Witness ==
    \E c1 \in Callers : \E c2 \in Callers :
        /\ pc[c1] = "cmd_ack"
        /\ pc[c2] = "lock"

(***************************************************************************)
(* Properties of the stream parser                                         *)
(***************************************************************************)
FRAME == LD2450_UPDATE_FRAME_LEN_TOTAL

\* the last k bytes of sequence q
Suffix(q, k) == SubSeq(q, Len(q) - k + 1, Len(q))

\* C12: a valid frame given to the parser in pieces (the buffer holding at
\* most non-header leftovers) decodes to the same report as the frame given
\* in one call: while fewer than 30 bytes were given every call returned
\* false, nothing was decoded and the buffer still ends with all bytes given;
\* the call that completes the frame returns true and the report is the
\* frame's report, decoded once.
C12_SplitFrameDecodesAlike ==
    (scen.kind = "one" /\ feed_calls > 0) =>
        /\ (fed < FRAME) =>
              /\ ~feed_ret
              /\ feed_total = 0
              /\ report = ZeroReport
              /\ Len(p_buf) >= fed
              /\ Suffix(p_buf, fed) = SubSeq(stream, 1, fed)
        /\ (fed = FRAME) =>
              /\ report = parse_update_payload(scen.first)
              /\ feed_total = 1
              /\ (feed_k > 0) => feed_ret

C12_Witness ==
    /\ scen.kind = "one"
    /\ feed_calls = 2
    /\ fed = FRAME
    /\ feed_k \in 1..3
    /\ feed_ret
    /\ report.occupied

\* b holds a header at 0-based offset i whose footer, 28 bytes on, is right
FrameAt(b, i) ==
    /\ i + FRAME <= Len(b)
    /\ SubSeq(b, i + 1, i + 4) = k_update_header
    /\ b[i + 29] = LD2450_END0
    /\ b[i + 30] = LD2450_END1

\* C13 as stated: a frame with replaced footer bytes followed at once by a
\* valid frame gives exactly one decoded frame, and the report is the one of
\* the valid frame, for every payload.
C13_BadThenGoodDecodesGood ==
    (scen.kind = "two" /\ scen.footer = BadFooter /\ fed = 2 * FRAME) =>
        /\ feed_total = 1
        /\ report = parse_update_payload(scen.second)

\* no header-like byte sequence inside the corrupted frame is followed, 28
\* bytes on, by the footer bytes
NoFalseFrame(b) == \A i \in 1..(FRAME - 1) : ~FrameAt(b, i)

\* C13 amended: the same, for payloads in which no header-like byte sequence
\* inside the corrupted frame is followed 28 bytes later by the footer bytes.
C13_BadThenGoodDecodesGoodAligned ==
    (scen.kind = "two" /\ scen.footer = BadFooter /\ fed = 2 * FRAME
        /\ NoFalseFrame(stream)) =>
        /\ feed_total = 1
        /\ report = parse_update_payload(scen.second)

C13_Witness ==
    /\ scen.kind = "two"
    /\ scen.footer = BadFooter
    /\ scen.first = PayHdr
    /\ NoFalseFrame(stream)
    /\ fed = 2 * FRAME
    /\ feed_calls = 1
    /\ feed_total = 1
    /\ report = parse_update_payload(scen.second)

\* the bytes a call worked on contain a complete frame
HasCompleteFrame(b) == \E i \in 0..(Len(b) - FRAME) : FrameAt(b, i)

\* C14: a call returns true exactly if it decoded at least one frame, which
\* is exactly if the bytes it worked on (kept tail and new data) contain a
\* header followed by 24 bytes and the footer; a call that gets no bytes
\* returns false.
C14_TrueIffFrameDecoded ==
    /\ feed_ret <=> (feed_n > 0)
    /\ feed_ret <=> HasCompleteFrame(feed_in)
    /\ (feed_k = 0) => ~feed_ret

C14_Witness ==
    /\ feed_calls = 2
    /\ feed_ret
    /\ feed_n = 1
    /\ Len(p_buf) > 3

(***************************************************************************)
(* Properties of the decoding of a target record                           *)
(***************************************************************************)
\* the frame of the stream has been decoded
FrameDecoded == scen.kind = "one" /\ fed = FRAME /\ feed_ret

\* the unsigned 16-bit little-endian value at 0-based offset o of the payload
RawU16(payload, o) == payload[o + 1] + 256 * payload[o + 2]

\* C15: target i of a decoded frame is present exactly if its raw unsigned Y
\* is nonzero; a present target has y_mm = raw Y - 0x8000 (a value that fits
\* 16 signed bits); an absent one has x_mm, y_mm and speed 0 whatever its X
\* and speed bytes are.  Y bytes 0x10,0x80 decode to present, 0x00,0x00 to
\* absent.
C15_PresenceAndBiasedY ==
    FrameDecoded =>
        /\ \A i \in 0..2 :
              LET t == report.targets[i]
                  rawY == RawU16(scen.first, 8 * i + 2)
              IN  /\ t.present <=> (rawY # 0)
                  /\ t.present => (t.y_mm = rawY - 32768 /\ t.y_mm \in -32768..32767)
                  /\ (~t.present) => (t.x_mm = 0 /\ t.y_mm = 0 /\ t.speed = 0)
        /\ (scen.first = PayT) =>
              /\ report.targets[0].present /\ report.targets[0].y_mm = 16
              /\ ~report.targets[1].present

C15_Witness ==
    /\ FrameDecoded
    /\ \E i \in 0..2 :
          /\ ~report.targets[i].present
          /\ RawU16(scen.first, 8 * i) # 0
          /\ RawU16(scen.first, 8 * i + 4) # 0
    /\ \E i \in 0..2 : report.targets[i].present /\ report.targets[i].y_mm = 16

\* sign and magnitude of a raw 16-bit value: the low 15 bits, negated when
\* bit 15 is set
SignMagnitude(v) == (IF v >= 32768 THEN -1 ELSE 1) * (v % 32768)

\* C16: x_mm and speed of a present target are the sign-and-magnitude reading
\* of their raw 16-bit values: the raw value itself when bit 15 is clear, and
\* (-v + 0x8000) cut to 16 bits, that is minus the low 15 bits, when it is set.
C16_SignMagnitudeFields ==
    FrameDecoded =>
        \A i \in 0..2 :
            LET t == report.targets[i]
                rawX == RawU16(scen.first, 8 * i)
                rawS == RawU16(scen.first, 8 * i + 4)
            IN  t.present =>
                    /\ t.x_mm = SignMagnitude(rawX)
                    /\ t.speed = SignMagnitude(rawS)
                    /\ (rawX < 32768) => t.x_mm = rawX
                    /\ (rawX >= 32768) => t.x_mm = ToInt16((-rawX) + 32768)

C16_Witness ==
    /\ FrameDecoded
    /\ \E i \in 0..2 :
          /\ report.targets[i].present
          /\ report.targets[i].x_mm = -32767
          /\ report.targets[i].speed = 255

(***************************************************************************)
(* Properties of the zone test                                             *)
(***************************************************************************)
\* p lies on the closed segment a-b
OnSegment(p, a, b) ==
    /\ (p.y_mm - a.y_mm) * (b.x_mm - a.x_mm) = (p.x_mm - a.x_mm) * (b.y_mm - a.y_mm)
    /\ (a.x_mm <= p.x_mm /\ p.x_mm <= b.x_mm) \/ (b.x_mm <= p.x_mm /\ p.x_mm <= a.x_mm)
    /\ (a.y_mm <= p.y_mm /\ p.y_mm <= b.y_mm) \/ (b.y_mm <= p.y_mm /\ p.y_mm <= a.y_mm)

\* the edges of a quadrilateral, as pairs of 0-based vertex indices
QuadEdges == {<<3, 0>>, <<0, 1>>, <<1, 2>>, <<2, 3>>}

OnBoundary(z, p) == \E e \in QuadEdges : OnSegment(p, z.v[e[1]], z.v[e[2]])

\* the horizontal ray from p to the right crosses edge a-b, decided exactly:
\* the edge straddles the ray's height and its intersection lies right of p
CrossesRight(p, a, b) ==
    /\ (a.y_mm > p.y_mm) # (b.y_mm > p.y_mm)
    /\ LET d == (p.y_mm - a.y_mm) * (b.x_mm - a.x_mm) - (p.x_mm - a.x_mm) * (b.y_mm - a.y_mm)
       IN  IF b.y_mm > a.y_mm THEN d > 0 ELSE d < 0

\* even-odd rule, boundary included
ExactInside(z, p) ==
    \/ OnBoundary(z, p)
    \/ Cardinality({e \in QuadEdges : CrossesRight(p, z.v[e[1]], z.v[e[2]])}) % 2 = 1

\* a frame with a target in slot 0 was evaluated against enabled zone 0
ZoneTested ==
    /\ FrameExported
    /\ s_cfg.enabled
    /\ s_zones[0].enabled
    /\ report.targets[0].present

TestedPoint == Pt(report.targets[0].x_mm, report.targets[0].y_mm)

\* C17: for an enabled quadrilateral with integer vertices, convex or not and
\* in any winding order, the zone test is true exactly if the point lies on
\* an edge or is inside by the even-odd rule evaluated exactly.
C17_ContainsIsExact ==
    ZoneTested => (s_state.zone_occupied[0] <=> ExactInside(s_zones[0], TestedPoint))

\* C18: a point on an edge of an enabled zone, vertices included, is inside;
\* for the zone (0,500),(500,500),(500,1500),(0,1500) the point (250,1000) is
\* inside, (600,1000) is outside and the points of the edge (0,500)-(500,500)
\* are inside.
C18_BoundaryIsInside ==
    ZoneTested =>
        /\ OnBoundary(s_zones[0], TestedPoint) => s_state.zone_occupied[0]
        /\ (s_zones[0] = ZoneDefault) =>
              /\ (TestedPoint = Pt(250, 1000)) => s_state.zone_occupied[0]
              /\ (TestedPoint = Pt(600, 1000)) => ~s_state.zone_occupied[0]
              /\ (TestedPoint.y_mm = 500 /\ TestedPoint.x_mm \in 0..500)
                     => s_state.zone_occupied[0]

C18_Witness ==
    /\ ZoneTested
    /\ s_zones[0] = ZoneDefault
    /\ TestedPoint = Pt(250, 1500)
    /\ s_state.zone_occupied[0]

(***************************************************************************)
(* Properties of the exported snapshot                                     *)
(***************************************************************************)
\* C19: in every state snapshot with target_count_effective > 0 the selected
\* target is present and is one of the present targets of the snapshot's
\* frame; in a snapshot exported in multi mode it is the present target
\* with the lowest slot index.
C19_SelectedIsValid ==
    (s_state.target_count_effective > 0) =>
        /\ s_state.selected.present
        /\ \E i \in 0..2 :
              /\ s_state.targets[i].present
              /\ s_state.selected = s_state.targets[i]
        /\ (FrameExported /\ s_cfg.mode = LD2450_TRACK_MULTI) =>
              \E i \in 0..2 :
                  /\ s_state.targets[i].present
                  /\ s_state.selected = s_state.targets[i]
                  /\ \A k \in 0..(i - 1) : ~s_state.targets[k].present

(***************************************************************************)
(* The debouncer with the default delay and no cooldown                    *)
(***************************************************************************)
\* an evaluation cycle that runs the debouncer
Evaluation == DebPoll /\ s_network_joined

\* C20: with the default delay and cooldown 0, from stable Clear: an
\* evaluation that sees raw clear emits nothing (so raw occupied for less
\* than the delay and then clear emits no transition); 'occupied' is emitted
\* at the first evaluation at which the delay has passed since raw became
\* occupied, and at no earlier one; from stable Occupied, 'clear' is emitted
\* by the very next evaluation that sees raw clear.
C20_DefaultDelayNoCooldown ==
    [][Evaluation =>
        \A e \in Endpoints :
            LET raw == raw_occupancy(s_state, e)
                held == now - obsSince'[e]
            IN  /\ (~s_last_occ[e] /\ ~raw) => ~s_last_occ'[e]
                /\ (~s_last_occ[e] /\ raw /\ held < occupancy_delay[e]) => ~s_last_occ'[e]
                /\ (~s_last_occ[e] /\ raw /\ held >= occupancy_delay[e]) => s_last_occ'[e]
                /\ (s_last_occ[e] /\ ~raw) => ~s_last_occ'[e]
                /\ (s_last_occ[e] /\ raw) => s_last_occ'[e]]_vars

(***************************************************************************)
(* Zero delay and zero cooldown                                            *)
(***************************************************************************)
\* C21: an evaluation that sees raw occupied while the stable value is clear
\* reports occupied at once when the endpoint's delay is zero, and one that
\* sees raw clear while the stable value is occupied reports clear at once
\* when the endpoint's cooldown is zero.
C21_ZeroMeansImmediate ==
    [][Evaluation =>
        \A e \in Endpoints :
            LET raw == raw_occupancy(s_state, e) IN
            /\ (raw /\ ~s_last_occ[e] /\ occupancy_delay[e] = 0) => s_last_occ'[e]
            /\ (~raw /\ s_last_occ[e] /\ occupancy_cooldown[e] = 0) => ~s_last_occ'[e]]_vars

\* an endpoint with zero delay reported occupied at the evaluation that first
\* saw it, while an endpoint with a delay is still waiting
C21_Witness ==
    /\ now > 0
    /\ \E e \in Endpoints :
          /\ occupancy_delay[e] = 0
          /\ s_last_occ[e] /\ obsRaw[e] /\ obsSince[e] = now
    /\ \E e \in Endpoints :
          /\ occupancy_delay[e] > 0
          /\ ~s_last_occ[e] /\ obsRaw[e] /\ obsSince[e] = now

(***************************************************************************)
(* Snapshots                                                                *)
(***************************************************************************)
\* no store into the object of this kind is under way
Quiescent(kind) ==
    IF kind = "state" THEN exp_pc # "write"
    ELSE set_pc # "write"

\* C22: when an accessor has filled the caller's buffer and is about to leave
\* its critical section, the buffer equals the shared object as it is at that
\* instant, and no ingestion cycle or mutator is in the middle of storing into
\* that object.
C22_SnapshotIsOneInstant ==
    get_pc = "exit" => (get_out = shared(get_kind) /\ Quiescent(get_kind))

\* a snapshot of the state was taken while the ingestion task, holding new
\* values, waits for the critical section
C22_Witness ==
    /\ get_pc = "exit" /\ get_kind = "state"
    /\ exp_pc = "enter"
    /\ exp_val # s_state
    /\ s_state # ZeroState

(***************************************************************************)
(* Rejected mutator calls                                                  *)
(***************************************************************************)
MutCalls ==
    {ApiCall("set_enabled", FALSE, b, 0, DefaultZones, NoZone) : b \in BOOLEAN}
    \cup {ApiCall("set_publish_coords", FALSE, b, 0, DefaultZones, NoZone) : b \in BOOLEAN}
    \cup {ApiCall("set_tracking_mode", FALSE, FALSE, m, DefaultZones, NoZone) : m \in ApiModes}
    \cup {ApiCall("set_zones", null, FALSE, n, zs, NoZone) :
              null \in BOOLEAN, n \in ApiCounts, zs \in ApiZoneSets}
    \cup {ApiCall("set_zone", null, FALSE, n, DefaultZones, z) :
              null \in BOOLEAN, n \in ApiIndexes, z \in ApiZoneArgs}

AllZeroEnabled(z) ==
    z.enabled /\ \A k \in 0..3 : z.v[k].x_mm = 0 /\ z.v[k].y_mm = 0

InvalidArgument(c) ==
    \/ c.fn = "set_zone" /\ (c.null \/ c.n >= 5 \/ AllZeroEnabled(c.zone))
    \/ c.fn = "set_zones" /\ (c.null \/ c.n # 5 \/ \E zi \in 0..4 : AllZeroEnabled(c.zones[zi]))
    \/ c.fn = "set_tracking_mode" /\ c.n \notin {LD2450_TRACK_MULTI, LD2450_TRACK_SINGLE}

\* C23: a mutator called with an invalid argument returns at once with an
\* error and stores nothing into s_zones or s_cfg; a set_zones call that
\* returns has stored all five zones of its argument.
C23_InvalidCallChangesNothing ==
    [][/\ \A c \in MutCalls :
              (SetCall(c) /\ InvalidArgument(c)) =>
                  /\ api_ret' \in {ESP_ERR_INVALID_ARG, ESP_ERR_INVALID_SIZE}
                  /\ set_pc' = "idle"
                  /\ UNCHANGED <<s_zones, s_cfg>>
       /\ (SetExit /\ set_call.fn = "set_zones") => s_zones' = set_call.zones]_vars

\* a set_zones call with a wrong count was rejected while zones and settings
\* applied earlier are live
C23_Witness ==
    /\ set_pc = "idle"
    /\ api_ret = ESP_ERR_INVALID_SIZE
    /\ s_zones = NearZones
    /\ s_cfg.mode = LD2450_TRACK_SINGLE

(***************************************************************************)
(* Outcomes of read_ack                                                    *)
(***************************************************************************)
\* position of the first complete ACK header in the bytes, 0 if there is none
FirstHeader(bytes) ==
    LET at == {i \in 1..(Len(bytes) - 3) : SubSeq(bytes, i, i + 3) = CMD_HEADER}
    IN  IF at = {} THEN 0 ELSE CHOOSE i \in at : \A j \in at : i <= j

\* a complete acknowledgement arrived: a header followed by ten bytes
CompleteAck(bytes) ==
    FirstHeader(bytes) > 0 /\ Len(bytes) >= FirstHeader(bytes) + 3 + ACK_NEED

AckByte(bytes, k) == bytes[FirstHeader(bytes) + 4 + k]

EchoMismatch(bytes, id) == AckByte(bytes, 2) # id \/ AckByte(bytes, 3) # 1
StatusNonZero(bytes) == AckByte(bytes, 4) # 0 \/ AckByte(bytes, 5) # 0

\* C24: read_ack returns ESP_ERR_TIMEOUT when no complete acknowledgement
\* arrived in time, ESP_ERR_INVALID_RESPONSE when the echoed command word is
\* not (expected id, 0x01), ESP_FAIL when the word matches and the status is
\* non-zero; the three results differ from each other and from ESP_OK, which
\* is returned in no other case.
C24_AckFailuresDistinct ==
    ack_res # "none" =>
        /\ (~CompleteAck(ack_rx)) => ack_res = ESP_ERR_TIMEOUT
        /\ (CompleteAck(ack_rx) /\ EchoMismatch(ack_rx, ack_expected)) =>
               ack_res = ESP_ERR_INVALID_RESPONSE
        /\ (CompleteAck(ack_rx) /\ ~EchoMismatch(ack_rx, ack_expected)
                /\ StatusNonZero(ack_rx)) => ack_res = ESP_FAIL
        /\ (ack_res = ESP_OK) =>
               /\ CompleteAck(ack_rx)
               /\ ~EchoMismatch(ack_rx, ack_expected)
               /\ ~StatusNonZero(ack_rx)
        /\ Cardinality({ESP_OK, ESP_ERR_TIMEOUT, ESP_ERR_INVALID_RESPONSE, ESP_FAIL}) = 4

\* a complete acknowledgement of another command arrived after a broken header
C24_Witness ==
    /\ ack_res = ESP_ERR_INVALID_RESPONSE
    /\ CompleteAck(ack_rx)
    /\ FirstHeader(ack_rx) = 4
    /\ AckByte(ack_rx, 2) = CMD_SINGLE_TARGET

(***************************************************************************)
(* A command against a sensor that acknowledges every frame                *)
(***************************************************************************)
\* the command ids of the frames written in history l, in order
RECURSIVE WrittenIds(_)
WrittenIds(l) ==
    IF l = <<>> THEN <<>>
    ELSE (IF Head(l).op = "write" THEN <<Head(l).cmd>> ELSE <<>>) \o WrittenIds(Tail(l))

\* the exit-configuration frame was the last one written and the sensor's
\* acknowledgement of it was read
ExitedConfig(l) ==
    \E k \in 1..Len(l) :
        /\ IsEv(l[k], "ack", CMD_DISABLE_CONF, ESP_OK)
        /\ \A j \in (k + 1)..Len(l) : l[j].op \notin {"write", "ack"}

\* C25: when the sensor acknowledges every frame correctly, a returned
\* send_config_command has returned ESP_OK, has written exactly the enter,
\* command and exit frames in that order, and has read the acknowledgement of
\* the exit frame.
C25_EchoRoundTrip ==
    \A c \in Callers :
        Returned(c) =>
            /\ ret[c] = ESP_OK
            /\ WrittenIds(log[c]) = <<CMD_ENABLE_CONF, cmd_id[c], CMD_DISABLE_CONF>>
            /\ ExitedConfig(log[c])

(***************************************************************************)
(* Effective target count, report counters, disabled zones                 *)
(***************************************************************************)
\* C26: the state exported for a decoded frame has target_count_effective
\* equal to the report's target_count in multi mode, and in single mode equal
\* to 1 if some target of the report is present and to 0 otherwise.
C26_EffectiveCount ==
    FrameExported =>
        /\ (s_cfg.mode = LD2450_TRACK_MULTI) =>
               s_state.target_count_effective = report.target_count
        /\ (s_cfg.mode = LD2450_TRACK_SINGLE) =>
               s_state.target_count_effective =
                   (IF PresentSlots(report) # {} THEN 1 ELSE 0)

\* single mode, two targets present, effective count 1
C26_Witness ==
    /\ FrameExported
    /\ s_cfg.mode = LD2450_TRACK_SINGLE
    /\ report.target_count = 2
    /\ s_state.target_count_effective = 1

\* C27: in the report of a decoded frame target_count is the number of slots
\* whose present flag is set, whichever slots they are, and occupied is true
\* exactly if target_count > 0.
C27_CountMatchesPresentFlags ==
    FrameDecoded =>
        /\ report.target_count = Cardinality(PresentSlots(report))
        /\ report.occupied <=> (report.target_count > 0)

\* slots 0 and 2 present, slot 1 absent
C27_Witness ==
    /\ FrameDecoded
    /\ PresentSlots(report) = {0, 2}
    /\ report.target_count = 2
    /\ report.occupied

\* C28: the zone test is false for a disabled zone at the position of every
\* target of the frame, and the raw occupancy exported for a disabled zone
\* after a decoded frame is false.
C28_DisabledZoneNeverOccupied ==
    FrameExported =>
        \A zi \in 0..(LD2450_ZONE_COUNT - 1) :
            (~s_zones[zi].enabled) =>
                /\ ~s_state.zone_occupied[zi]
                /\ \A i \in 0..2 :
                       ~ld2450_zone_contains_point(s_zones[zi],
                            Pt(report.targets[i].x_mm, report.targets[i].y_mm))
                /\ ~ld2450_zone_contains_point(s_zones[zi],
                        Pt(s_state.selected.x_mm, s_state.selected.y_mm))

\* a present target lies within the vertices of a disabled zone, and the
\* enabled zone with the same vertices is occupied
C28_Witness ==
    /\ FrameExported
    /\ s_cfg.enabled
    /\ s_zones[2] = ZoneNear(FALSE)
    /\ s_zones[0] = ZoneNear(TRUE)
    /\ s_state.zone_occupied[0]
    /\ ~s_state.zone_occupied[2]
    /\ \E i \in PresentSlots(report) :
           ld2450_zone_contains_point(ZoneNear(TRUE),
               Pt(report.targets[i].x_mm, report.targets[i].y_mm))

(***************************************************************************)
(* Hand-off: return of the pause request                                   *)
(***************************************************************************)
\* ld2450_rx_pause has returned to caller c, which has not touched the UART yet
PauseReturned(c) == pc[c] = "enter_send"

\* C29: when ld2450_rx_pause has returned to a caller, the ingestion task has
\* given the paused signal and sits in its wake-up wait; it is not at its loop
\* top, on its way to the read, or inside uart_read_bytes.
C29_PauseReturnsAfterYield ==
    \A c \in Callers : PauseReturned(c) => rxPc = "wait"

(***************************************************************************)
(* Overflow truncation of the parser buffer                                *)
(***************************************************************************)
\* C30: a feed call that leaves more than PARSER_MAX_LEN bytes in the buffer
\* while the buffer contains a header discards none of the frames behind that
\* header: every complete frame from the first header on is decoded by the
\* call (the streams consist of valid frames back to back).
C30_TruncationSparesFrames ==
    [][LET all == p_buf \o SubSeq(stream, fed + 1, fed')
           pos == find_update_header(all)
       IN  (/\ feed_calls' = feed_calls + 1
            /\ Len(all) > PARSER_MAX_LEN
            /\ p_cap' >= Len(all)
            /\ pos >= 0) =>
               feed_n' = (Len(all) - pos) \div FRAME]_vars

(***************************************************************************)
(* Zone evaluation against concurrent zone writes                          *)
(***************************************************************************)
\* the zone sets that s_zones holds between two complete writes under SpecApi
WholeZoneSets == {DefaultZones, NearZones}

\* C31: the zone evaluation of a frame never observes a partially written
\* zone set: the state the ingestion task computed for the frame is the one
\* that some whole zone set (the one before or the one after a concurrent
\* ld2450_set_zones) gives for the same configuration and report.
C31_ZoneEvalSeesWholeSet ==
    exp_pc = "enter" =>
        \E zs \in WholeZoneSets : exp_val = export_state(exp_cfg, zs, report)

(***************************************************************************)
(* Pause hand-off: no lost wake-up                                         *)
(***************************************************************************)
\* the ingestion task is blocked in ulTaskNotifyTake with no pause request
\* outstanding
BlockedUnrequested == rxPc = "wait" /\ ~s_rx_pause_requested

\* C32: whenever the ingestion task is blocked on the wake signal while no
\* pause request is outstanding, it eventually is back at uart_read_bytes
\* (or a new pause request has arrived); no resume is lost, whether it was
\* issued before the task blocked or after a pause wait that timed out.
C32_NoLostWakeup == BlockedUnrequested ~> (rxPc = "read" \/ s_rx_pause_requested)

\* a resume that was issued before the ingestion task blocked: the task is
\* blocked with the wake signal already given and no request outstanding
C32_Witness == BlockedUnrequested /\ notifyValue > 0 /\ \A c \in Callers : pc[c] # "unlock"

(***************************************************************************)
(* Pause hand-off: the paused signal                                       *)
(***************************************************************************)
\* C36: whenever no pause request is outstanding, s_rx_paused_sem holds no
\* token, so the token a pause request takes was given in response to that
\* request.
C36_PausedSignalFresh == ~s_rx_pause_requested => s_rx_paused_sem = 0

(***************************************************************************)
(* Debouncer: the pending flags                                            *)
(***************************************************************************)
\* C37: for every endpoint, after every call of sensor_poll_cb (and before
\* the first one): s_pending_occupied and s_pending_clear are not both set,
\* s_pending_occupied is set only while the reported value is clear, and
\* s_pending_clear only while the reported value is occupied.
C37_PendingFlagsExclusive ==
    \A e \in Endpoints :
        /\ ~(s_pending_occupied[e] /\ s_pending_clear[e])
        /\ s_pending_occupied[e] => ~s_last_occ[e]
        /\ s_pending_clear[e] => s_last_occ[e]

\* a pending clear that survived the return of the target, next to an
\* endpoint that has reported occupied and has nothing pending
C37_Witness ==
    /\ \E e \in Endpoints : s_pending_clear[e] /\ obsRaw[e]
    /\ \E e \in Endpoints : s_last_occ[e] /\ ~s_pending_clear[e]

(***************************************************************************)
(* Debouncer: order of the reports                                         *)
(***************************************************************************)
\* C33: for every endpoint, every evaluation that reports 'occupied' finds
\* the reported value clear and every one that reports 'clear' finds it
\* occupied (so the reports alternate and, the value starting clear, the
\* first one is 'occupied'), and the reported value after the evaluation is
\* the value last reported.
C33_ReportsAlternate ==
    [][Evaluation =>
        \A e \in Endpoints :
            LET d == debounce_of(s_state, e)
            IN  /\ d.emit = "occupied" => ~s_last_occ[e]
                /\ d.emit = "clear" => s_last_occ[e]
                /\ s_last_occ'[e] = IF d.emit = "none" THEN s_last_occ[e]
                                    ELSE d.emit = "occupied"]_vars

\* an endpoint that has reported 'occupied' and later, after a cooldown that
\* started at a time after 0, 'clear'
C33_Witness ==
    \E e \in Endpoints :
        /\ ~s_last_occ[e]
        /\ s_clear_start_time[e] > 0
        /\ ~s_pending_clear[e]
        /\ ~s_pending_occupied[e]

(***************************************************************************)
(* Stream parser: a header whose footer does not match                     *)
(***************************************************************************)
\* 0-based offset of the valid frame in a stream of kind "inside"
InsideAt == 4 + Len(scen.first)

\* the stray header has been rejected and all bytes of the stream are fed
InsideFed == scen.kind = "inside" /\ fed = Len(stream)

\* C34 as stated: when the header at the start of the buffer has a full frame
\* length behind it and the footer bytes do not match, one byte is dropped and
\* the scan goes on, so that the valid frame that begins at a later position
\* inside the rejected 30 bytes is decoded, and is the only frame decoded,
\* once its bytes are complete.
C34_BadFooterKeepsLaterFrame ==
    InsideFed =>
        /\ feed_total = 1
        /\ report = parse_update_payload(scen.second)

\* C34 amended: the same, when no header-like byte sequence between the
\* dropped byte and the valid frame is followed 28 bytes later by the footer
\* bytes.
C34_BadFooterKeepsLaterFrameAligned ==
    (InsideFed /\ \A i \in 1..(InsideAt - 1) : ~FrameAt(stream, i)) =>
        /\ feed_total = 1
        /\ report = parse_update_payload(scen.second)

\* the stray header was rejected by the first feed call, with another
\* header-like sequence behind it, and the second call completed the frame
C34_Witness ==
    /\ InsideFed
    /\ scen.first = JunkHdr
    /\ \A i \in 1..(InsideAt - 1) : ~FrameAt(stream, i)
    /\ feed_calls = 2
    /\ feed_k \in 1..(InsideAt - 1)
    /\ feed_n = 1
    /\ report = parse_update_payload(scen.second)

(***************************************************************************)
(* Stream parser: what a feed call leaves in the buffer                    *)
(***************************************************************************)
\* C40: after every feed call the buffer holds fewer bytes than a frame, and
\* either at most 3 bytes or bytes that begin with the frame header.
C40_RetainedBufferBounded ==
    /\ Len(p_buf) <= LD2450_UPDATE_FRAME_LEN_TOTAL - 1
    /\ \/ Len(p_buf) <= 3
       \/ SubSeq(p_buf, 1, 4) = k_update_header

\* a call that was handed more than a frame length of bytes, decoded nothing
\* and left an incomplete frame behind a header
C40_Witness ==
    /\ feed_calls > 0
    /\ feed_k > LD2450_UPDATE_FRAME_LEN_TOTAL
    /\ feed_n = 0
    /\ Len(p_buf) > 3
    /\ SubSeq(p_buf, 1, 4) = k_update_header

(***************************************************************************)
(* Stream parser: the scan loop terminates                                 *)
(***************************************************************************)
\* the next iteration of the scan loop leaves the loop or shortens the buffer
ScanShrinks ==
    rxPc = "feed" =>
        LET st == scan_step(p_buf, report, feed_ret, feed_n)
        IN  st.done \/ Len(st.buf) < Len(p_buf)

\* C35: every iteration of the scan loop of ld2450_parser_feed either leaves
\* the loop or strictly shortens the buffer, and every feed call, whatever
\* bytes it was given and whatever it returns, is followed by the ingestion
\* task being back at uart_read_bytes.
C35_FeedTerminates == []ScanShrinks /\ ((rxPc = "feed") ~> (rxPc = "read"))

\* the task is back at the top of its loop after a feed call that dropped a
\* candidate with a bad footer or bytes without a header and returned false
C35_Witness ==
    /\ rxPc = "top"
    /\ feed_calls > 0
    /\ feed_k >= LD2450_UPDATE_FRAME_LEN_TOTAL
    /\ ~feed_ret
    /\ Len(p_buf) < Len(feed_in)
    /\ scen.kind \in {"two", "inside", "garbage"}

(***************************************************************************)
(* The periodic poll alarm                                                 *)
(***************************************************************************)
\* C38: at most one alarm for sensor_poll_cb is pending at any time, over
\* any sequence of network signals.
C38_SinglePollAlarm == poll_alarms <= 1

(***************************************************************************)
(* Saved zones and live zones                                              *)
(***************************************************************************)
\* C39: once the saved configuration has been applied at start-up, and after
\* any sequence of zone vertex writes, the zones of the saved configuration
\* equal the driver's live zones.
C39_SavedZonesEqualLive == drvLast # "init" => nvs_zones = s_zones

====
